---- MODULE Spec2Model ----
(***************************************************************************)
(* GitHub API client of patty-pr-minder: createGitHubClient with its       *)
(* request / attemptRequest retry engine, the rate-limit snapshot, and the *)
(* result cache of fetchPR.                                                *)
(*                                                                         *)
(* Time is the value of Date.now() in milliseconds; it advances in steps   *)
(* of TickMs.  Every request is a chain of awaits; a request suspends in   *)
(* delay(), in fetch() and while an error body is read, and the model has  *)
(* one action per resumption.  The recursion of attemptRequest is kept as  *)
(* a stack of suspended frames, each remembering whether it awaits the     *)
(* nested call inside its try block or inside its catch block.             *)
(***************************************************************************)
EXTENDS Integers, Sequences, FiniteSets, TLC

\* ---------------------------------------------------------------- bounds
MaxNowMs == 6000
PairNowMs == 4000
SnapNowMs == 3000
MaxQuota == 1

\* ------------------------------------------------------ program constants
MAX_RETRIES == 3
BASE_BACKOFF_MS == 1000
MAX_URL_LENGTH == 2000

\* granularity of the clock
TickMs == BASE_BACKOFF_MS

ProcIds == {1, 2}
Keys == {1, 2}
Bodies == {"b1", "b2"}
Ops == {"fetchPR", "fetchPRs", "validateToken"}
TTLs == {2000}

\* HTTP statuses the remote can answer with
Statuses == {200, 400, 401, 403, 404, 422, 500}

\* more statuses outside 200..299 that fetch can resolve with
AllStatuses == Statuses \cup {304, 402, 409, 429, 499, 501, 502, 503, 599}

\* ---------------------------------------------------------------- text
\* a text is a sequence of characters

Digits == <<"0", "1", "2", "3", "4", "5", "6", "7", "8", "9">>

IsDigit(c) == \E d \in 1..Len(Digits) : Digits[d] = c
DigitValue(c) == (CHOOSE d \in 1..Len(Digits) : Digits[d] = c) - 1

\* String(n) for a natural number n
RECURSIVE ToText(_)
ToText(n) ==
  IF n < Len(Digits) THEN <<Digits[n + 1]>>
  ELSE Append(ToText(n \div Len(Digits)), Digits[(n % Len(Digits)) + 1])

RECURSIVE DecimalValue(_)
DecimalValue(text) ==
  IF text = <<>> THEN 0
  ELSE DecimalValue(SubSeq(text, 1, Len(text) - 1)) * Len(Digits)
         + DigitValue(text[Len(text)])

\* Number(text): the empty text is 0, a decimal numeral is its value, and
\* any other text of the model is NaN
Number(text) ==
  IF \A i \in 1..Len(text) : IsDigit(text[i])
  THEN [finite |-> TRUE, value |-> DecimalValue(text)]
  ELSE [finite |-> FALSE, value |-> 0]

\* --------------------------------------------------- request arguments
\* the character class [A-Za-z0-9_.-]
IdentifierChars ==
  {"a", "b", "c", "d", "e", "f", "g", "h", "i", "j", "k", "l", "m",
   "n", "o", "p", "q", "r", "s", "t", "u", "v", "w", "x", "y", "z",
   "A", "B", "C", "D", "E", "F", "G", "H", "I", "J", "K", "L", "M",
   "N", "O", "P", "Q", "R", "S", "T", "U", "V", "W", "X", "Y", "Z",
   "0", "1", "2", "3", "4", "5", "6", "7", "8", "9", "_", ".", "-"}

\* characters that String.prototype.trim removes
Whitespace == {" ", "\t", "\n", "\r"}

\* a PR number argument: an integer, a number with a fractional part
\* (value is its integer part), or undefined
PRNumber(n) == [defined |-> TRUE, integer |-> TRUE, value |-> n]
Fraction(n) == [defined |-> TRUE, integer |-> FALSE, value |-> n]
NoNumber == [defined |-> FALSE, integer |-> FALSE, value |-> 0]

\* an optional number of FetchPROptions: not given, a finite number or NaN
NoOption == [given |-> FALSE, finite |-> FALSE, value |-> 0]
Given(n) == [given |-> TRUE, finite |-> TRUE, value |-> n]
GivenNaN == [given |-> TRUE, finite |-> FALSE, value |-> 0]

\* FetchPROptions; state "" is undefined
Options(state, perPage, page) == [state |-> state, perPage |-> perPage, page |-> page]
NoOptions == Options("", NoOption, NoOption)

ArgsWith(owner, repo, n, options) ==
  [owner |-> owner, repo |-> repo, prNumber |-> n, options |-> options]

Args(owner, repo, n) == ArgsWith(owner, repo, n, NoOptions)

Octo == <<"o", "c", "t", "o">>
Repo == <<"r", "-", "1", ".", "x", "_", "Y">>

\* page sizes a caller passes
PerPageValues == {-1, 0, 1, 30, 100, 101, 1000}

\* the options a caller passes to fetchPRs: a page size, or a state and a page
ListOptions ==
  {Options("", perPage, NoOption) :
     perPage \in {NoOption, GivenNaN} \cup {Given(n) : n \in PerPageValues}}
  \cup {Options(st, NoOption, page) :
          st \in {"", "open", "closed", "all"}, page \in {NoOption, Given(2)}}

\* well-formed arguments for the PRs of Keys
ValidArgs == {Args(Octo, Repo, PRNumber(k)) : k \in Keys}

\* arguments with an empty, blank, padded or ill-formed name, or with a PR
\* number that is not a positive integer
OddArgs ==
  {Args(<<>>, Repo, PRNumber(1)),
   Args(Octo, <<" ">>, PRNumber(1)),
   Args(<<" ">> \o Octo \o <<" ">>, Repo, PRNumber(1)),
   Args(Octo, <<"r", "/", "x">>, PRNumber(1)),
   Args(<<"o", " ", "c">>, Repo, PRNumber(1)),
   Args(Octo, Repo, PRNumber(0)),
   Args(Octo, Repo, PRNumber(-1)),
   Args(Octo, Repo, Fraction(1))}

\* ------------------------------------------------------- quota headers
\* headers.get(name): null when the header was not sent, else its text
NotSent == [present |-> FALSE, text |-> <<>>]
Empty == [present |-> TRUE, text |-> <<>>]
Garbled == [present |-> TRUE, text |-> <<"a", "b", "c">>]

\* a quota value the remote does not send
Absent == -1
Sent(n) == IF n = Absent THEN NotSent ELSE [present |-> TRUE, text |-> ToText(n)]
Header(l, r, t, u) ==
  [limit |-> Sent(l), remaining |-> Sent(r), reset |-> Sent(t), used |-> Sent(u)]

\* reset times (epoch seconds) fall in the first half of the time horizon
ResetSecs == 0..(MaxNowMs \div 2000)

\* complete quota headers, with and without x-ratelimit-used, and headers
\* with one of the three required fields missing or not a number
HeaderSets ==
  {Header(MaxQuota, r, t, u) : r \in 0..MaxQuota, t \in ResetSecs, u \in {Absent, 0}}
  \cup {Header(Absent, Absent, Absent, Absent), Header(Absent, 0, 0, 0),
        [Header(MaxQuota, 0, 0, 0) EXCEPT !.remaining = Garbled],
        Header(MaxQuota, 0, Absent, 0)}

\* the responses of the remote: a status and, for 200, a body
Responses ==
  {[status |-> 200, body |-> b] : b \in Bodies}
  \cup {[status |-> st, body |-> ""] : st \in AllStatuses \ {200}}

\* a remote that sends no quota headers, or reports the quota exhausted until second 1
FewHeaderSets ==
  {Header(Absent, Absent, Absent, Absent), Header(MaxQuota, 0, 1, Absent)}

\* a remote that sends no, complete, empty and garbled quota headers
RawHeaderSets ==
  {Header(Absent, Absent, Absent, Absent),
   Header(MaxQuota, 0, 0, Absent),
   Header(MaxQuota, MaxQuota, 1, Absent),
   Header(MaxQuota, MaxQuota, 1, 0),
   [Header(MaxQuota, MaxQuota, 1, Absent) EXCEPT !.limit = Empty],
   [Header(MaxQuota, MaxQuota, 1, Absent) EXCEPT !.remaining = Empty],
   [Header(MaxQuota, MaxQuota, 1, Absent) EXCEPT !.reset = Empty],
   [Header(MaxQuota, MaxQuota, 1, Absent) EXCEPT !.limit = Garbled],
   [Header(MaxQuota, MaxQuota, 1, Absent) EXCEPT !.reset = Garbled],
   Header(MaxQuota, Absent, 1, Absent)}

\* no response with quota headers yet
NoQuota == [limit |-> <<>>, remaining |-> <<>>, reset |-> <<>>]

\* state.rateLimit = null
NoRateLimit == [limit |-> -1, remaining |-> -1, reset |-> -1, used |-> -1]

\* error values: the class of the thrown object and its status field
NoError == [kind |-> "null", status |-> 0]
TypeError == [kind |-> "TypeError", status |-> 0]
MissingTokenError == [kind |-> "Unauthorized", status |-> 401]

\* mutant: a timeout is reported as a server error
TimeoutErrorAsServer == [kind |-> "ServerError", status |-> 408]

TimeoutError == [kind |-> "Timeout", status |-> 408]

NoResult == [tag |-> "none", val |-> ""]
NoEntry == [tag |-> "empty", val |-> "", expiresAt |-> 0]

VARIABLES
  now,          \* Date.now()
  token,        \* state.config.token is non-empty
  cacheEnabled, \* configuration: cache enabled
  cacheTTL,     \* configuration: cache time-to-live, ms
  procs,        \* the callers that use this client
  ops,          \* the operations the callers use
  args,         \* the arguments the callers pass to fetchPR and fetchPRs
  quota,        \* which quota headers the remote sends: "any", "few" or "raw"
  statuses,     \* which statuses the remote answers with
  horizon,      \* the time up to which the run is followed
  history,      \* whether the history of fetchPR results is kept without a cache
  rateLimit,    \* state.rateLimit
  cache,        \* result cache of fetchPR, by key
  pc,           \* where each caller's request is suspended
  op,           \* the operation each caller is running
  key,          \* the PR a fetchPR is for
  stack,        \* suspended attemptRequest frames: site of the nested call
  status,       \* HTTP status of the response whose error body is being read
  err,          \* the error that is propagating
  wakeAt,       \* time the pending delay() timer is due
  result,       \* what the operation returned or threw
  query,        \* the query parameters fetchPRs built
  got,          \* what getRateLimit returned
  issued,       \* (history) network attempts of the current request
  lastKind,     \* (history) classification of the last finished attempt
  decAt,        \* (history) time of the last wait decision
  decReset,     \* (history) snapshot reset (s) read by that decision when remaining = 0, else -1
  allTransient, \* (history) every attempt so far ended ServerError or Timeout
  allNetwork,   \* (history) every attempt so far failed with no response (TypeError)
  hit,          \* (history) the call was answered from the cache
  early,        \* (history) an attempt was issued while the snapshot said to wait
  lastFetch,    \* (history) by key: last result fetchPR resolved over the network
  lastQuota,    \* (history) limit, remaining, reset of the last response that carried all three
  subject,      \* what the PR link utilities are applied to: "none", "url", "message", "element" or "keys"
  link,         \* the text given to isValidGitHubPRUrl and parseGitHubPRUrl, and (history) what it was written from
  valid,        \* what isValidGitHubPRUrl returned
  info,         \* what parseGitHubPRUrl returned
  message,      \* the text given to extractPRUrlsFromMessage, and (history) the links it was written from
  extracted,    \* what extractPRUrlsFromMessage returned
  again,        \* what parseGitHubPRUrl and extractPRUrlsFromMessage returned for each element of extracted
  tracked,      \* two tracked PRs
  ids           \* the keys of the two tracked PRs

config == <<token, cacheEnabled, cacheTTL, procs, ops, args, quota, statuses, horizon, history>>
reqvars == <<pc, op, key, stack, status, err, wakeAt, result, query, got>>
histvars == <<issued, lastKind, decAt, decReset, allTransient, allNetwork, hit, early>>
clientvars == <<now, config, rateLimit, cache, reqvars, histvars, lastFetch, lastQuota>>
linkvars == <<subject, link, valid, info, message, extracted, again, tracked, ids>>
vars == <<clientvars, linkvars>>

\* a remote that sends no quota headers, or reports the quota exhausted until second 2
PairHeaderSets ==
  {Header(Absent, Absent, Absent, Absent), Header(MaxQuota, 0, 2, Absent)}

\* a remote that sends no quota headers or one of two complete sets that
\* differ in every field
FirstQuota == Header(MaxQuota, 0, 2, Absent)
SecondQuota == Header(MaxQuota + 1, MaxQuota, 1, 0)
SnapHeaderSets == {Header(Absent, Absent, Absent, Absent), FirstQuota, SecondQuota}

QuotaHeaders ==
  CASE quota = "any" -> HeaderSets
    [] quota = "snap" -> SnapHeaderSets
    [] quota = "few" -> FewHeaderSets
    [] quota = "pair" -> PairHeaderSets
    [] quota = "raw" -> RawHeaderSets

RemoteResponses == {r \in Responses : r.status \in statuses}

\* a header that was sent and is a decimal numeral
IsNumeral(v) == v.present /\ v.text # <<>> /\ \A i \in 1..Len(v.text) : IsDigit(v.text[i])

\* a response that carries limit, remaining and reset
Carried(h) == IsNumeral(h.limit) /\ IsNumeral(h.remaining) /\ IsNumeral(h.reset)

\* the quota values a response carries, as sent
QuotaOf(h) == [limit |-> h.limit.text, remaining |-> h.remaining.text, reset |-> h.reset.text]

\* ------------------------------------------------------- pure functions

Max(a, b) == IF a >= b THEN a ELSE b

RECURSIVE Pow2(_)
Pow2(n) == IF n <= 0 THEN 1 ELSE 2 * Pow2(n - 1)

\* the result null of parseNumber
Null == [null |-> TRUE, value |-> 0]

parseNumber(value) ==
  IF ~value.present THEN Null
  ELSE LET parsed == Number(value.text)
       IN IF parsed.finite THEN [null |-> FALSE, value |-> parsed.value] ELSE Null

\* mutant: incomplete quota headers clear the snapshot
updateRateLimitFromHeadersClearing(headers, rl) ==
  LET limit == parseNumber(headers.limit)
      remaining == parseNumber(headers.remaining)
      reset == parseNumber(headers.reset)
      used == parseNumber(headers.used)
  IN IF limit.null \/ remaining.null \/ reset.null
     THEN NoRateLimit
     ELSE [limit |-> limit.value, remaining |-> remaining.value, reset |-> reset.value,
           used |-> IF ~used.null THEN used.value ELSE limit.value - remaining.value]

\* mutant: the fields of an existing snapshot are written one response apart:
\* the reset time is the one of the response before
updateRateLimitFromHeadersFieldwise(headers, rl) ==
  LET limit == parseNumber(headers.limit)
      remaining == parseNumber(headers.remaining)
      reset == parseNumber(headers.reset)
      used == parseNumber(headers.used)
  IN IF limit.null \/ remaining.null \/ reset.null
     THEN rl
     ELSE [limit |-> limit.value, remaining |-> remaining.value,
           reset |-> IF rl # NoRateLimit THEN rl.reset ELSE reset.value,
           used |-> IF ~used.null THEN used.value ELSE limit.value - remaining.value]

updateRateLimitFromHeaders(headers, rl) ==
  LET limit == parseNumber(headers.limit)
      remaining == parseNumber(headers.remaining)
      reset == parseNumber(headers.reset)
      used == parseNumber(headers.used)
  IN IF limit.null \/ remaining.null \/ reset.null
     THEN rl
     ELSE [limit |-> limit.value, remaining |-> remaining.value, reset |-> reset.value,
           used |-> IF ~used.null THEN used.value ELSE limit.value - remaining.value]

\* value.trim()
RECURSIVE trim(_)
trim(value) ==
  IF value = <<>> THEN value
  ELSE IF value[1] \in Whitespace THEN trim(Tail(value))
  ELSE IF value[Len(value)] \in Whitespace THEN trim(SubSeq(value, 1, Len(value) - 1))
  ELSE value

\* the GitHubRequestError (status 422) of the sanitizers
InvalidInputError == [kind |-> "RequestError", status |-> 422]

\* sanitizeIdentifier: ok is FALSE where it throws InvalidInputError
sanitizeIdentifier(value) ==
  IF value = <<>> THEN [ok |-> FALSE, value |-> <<>>]
  ELSE LET sanitized == trim(value)
       IN IF Len(sanitized) = 0 THEN [ok |-> FALSE, value |-> <<>>]
          ELSE IF \E i \in 1..Len(sanitized) : sanitized[i] \notin IdentifierChars
          THEN [ok |-> FALSE, value |-> <<>>]
          ELSE [ok |-> TRUE, value |-> sanitized]

\* sanitizePRNumber: ok is FALSE where it throws InvalidInputError
sanitizePRNumber(prNumber) ==
  IF ~prNumber.integer \/ prNumber.value <= 0 THEN [ok |-> FALSE, value |-> 0]
  ELSE [ok |-> TRUE, value |-> prNumber.value]

NoPath == [ok |-> FALSE, owner |-> <<>>, repo |-> <<>>, number |-> 0]

\* buildPRPath: the owner, repo and number of the path; number 0 for the
\* list path; ok is FALSE where a sanitizer throws
buildPRPath(owner, repo, prNumber) ==
  LET sanitizedOwner == sanitizeIdentifier(owner)
      sanitizedRepo == sanitizeIdentifier(repo)
      sanitizedNumber == sanitizePRNumber(prNumber)
  IN IF ~sanitizedOwner.ok THEN NoPath
     ELSE IF ~sanitizedRepo.ok THEN NoPath
     ELSE IF prNumber.defined
     THEN IF ~sanitizedNumber.ok THEN NoPath
          ELSE [ok |-> TRUE, owner |-> sanitizedOwner.value,
                repo |-> sanitizedRepo.value, number |-> sanitizedNumber.value]
     ELSE [ok |-> TRUE, owner |-> sanitizedOwner.value,
           repo |-> sanitizedRepo.value, number |-> 0]

\* the path "/user" of validateToken
UserPath == [ok |-> TRUE, owner |-> <<>>, repo |-> <<>>, number |-> 0]

\* the path an operation builds from its arguments
PathOf(o, a) ==
  CASE o = "fetchPR" -> buildPRPath(a.owner, a.repo, a.prNumber)
    [] o = "fetchPRs" -> buildPRPath(a.owner, a.repo, NoNumber)
    [] OTHER -> UserPath

\* Math.max and Math.min: NaN when an argument is NaN
MathMax(a, b) ==
  IF ~a.finite \/ ~b.finite THEN [finite |-> FALSE, value |-> 0]
  ELSE [finite |-> TRUE, value |-> IF a.value >= b.value THEN a.value ELSE b.value]

MathMin(a, b) ==
  IF ~a.finite \/ ~b.finite THEN [finite |-> FALSE, value |-> 0]
  ELSE [finite |-> TRUE, value |-> IF a.value <= b.value THEN a.value ELSE b.value]

Num(n) == [finite |-> TRUE, value |-> n]

clamp(value, min, max) == MathMin(MathMax(value, Num(min)), Num(max))

\* String(n) for a number of the model
String(n) ==
  IF ~n.finite THEN <<"N", "a", "N">>
  ELSE IF n.value < 0 THEN <<"-">> \o ToText(-n.value)
  ELSE ToText(n.value)

\* option ?? fallback
OrElse(option, fallback) ==
  IF option.given THEN [finite |-> option.finite, value |-> option.value] ELSE Num(fallback)

\* the query parameters of fetchPRs; state "" is a parameter that is not set
NoQuery == [state |-> "", per_page |-> <<>>, page |-> <<>>]

fetchPRsParams(options) ==
  LET stateParam == IF options.state = "" THEN "open" ELSE options.state
  IN [state |-> IF stateParam # "open" THEN stateParam ELSE "",
      per_page |-> String(clamp(OrElse(options.perPage, 30), 1, 100)),
      page |-> String(OrElse(options.page, 1))]

\* the query parameters operation o builds from its arguments
QueryOf(o, a) ==
  IF o = "fetchPRs" /\ buildPRPath(a.owner, a.repo, NoNumber).ok
  THEN fetchPRsParams(a.options) ELSE NoQuery

\* mutant: getRateLimit answers null
getRateLimitNull(rl) == NoRateLimit

getRateLimit(rl) == rl

\* the snapshot tells a request at time t to wait: quota exhausted, reset ahead
SaysWait(rl, t) == rl # NoRateLimit /\ rl.remaining = 0 /\ t < rl.reset * 1000

\* mutant: a missing token is not noticed
ensureTokenPass(tok) == NoError

\* ensureToken: the error it throws, NoError for none
ensureToken(tok) == IF ~tok THEN MissingTokenError ELSE NoError

\* mutant: only a 2xx response updates the snapshot
SnapshotAfterOkOnly(st, headers, rl) ==
  IF st = 200 THEN updateRateLimitFromHeaders(headers, rl) ELSE rl

\* the snapshot after a response arrived, whatever its status
SnapshotAfter(st, headers, rl) == updateRateLimitFromHeaders(headers, rl)

\* mutant: only status 500 is a server error
createErrorForStatusOnly500(st) ==
  CASE st = 401 -> [kind |-> "Unauthorized", status |-> st]
    [] st = 403 -> [kind |-> "Forbidden", status |-> st]
    [] st = 404 -> [kind |-> "NotFound", status |-> st]
    [] st = 422 -> [kind |-> "UnprocessableEntity", status |-> st]
    [] OTHER -> IF st = 500 THEN [kind |-> "ServerError", status |-> st]
                ELSE [kind |-> "RequestError", status |-> st]

createErrorForStatus(st) ==
  CASE st = 401 -> [kind |-> "Unauthorized", status |-> st]
    [] st = 403 -> [kind |-> "Forbidden", status |-> st]
    [] st = 404 -> [kind |-> "NotFound", status |-> st]
    [] st = 422 -> [kind |-> "UnprocessableEntity", status |-> st]
    [] OTHER -> IF st >= 500 THEN [kind |-> "ServerError", status |-> st]
                ELSE [kind |-> "RequestError", status |-> st]

\* mutant: a failure without a classified error is not retried
shouldRetryNoNetwork(error, attempt, rl) ==
  IF attempt >= MAX_RETRIES THEN FALSE
  ELSE IF rl # NoRateLimit /\ rl.remaining = 0 THEN TRUE
  ELSE IF error = NoError THEN FALSE
  ELSE IF error.kind \in {"Unauthorized", "NotFound", "UnprocessableEntity"} THEN FALSE
  ELSE IF error.kind = "Forbidden" THEN rl # NoRateLimit /\ rl.remaining = 0
  ELSE IF error.kind \in {"ServerError", "Timeout"} THEN TRUE
  ELSE error.status >= 500

shouldRetry(error, attempt, rl) ==
  IF attempt >= MAX_RETRIES THEN FALSE
  ELSE IF rl # NoRateLimit /\ rl.remaining = 0 THEN TRUE
  ELSE IF error = NoError THEN TRUE
  ELSE IF error.kind \in {"Unauthorized", "NotFound", "UnprocessableEntity"} THEN FALSE
  ELSE IF error.kind = "Forbidden" THEN rl # NoRateLimit /\ rl.remaining = 0
  ELSE IF error.kind \in {"ServerError", "Timeout"} THEN TRUE
  ELSE error.status >= 500

\* mutant: the backoff ignores the reset time of an exhausted quota
nextBackoffDelayNoReset(attempt, rl, t) == BASE_BACKOFF_MS * Pow2(attempt - 1)

\* mutant: the backoff does not grow with the attempt number
nextBackoffDelayFlat(attempt, rl, t) ==
  IF rl # NoRateLimit /\ rl.remaining = 0
  THEN Max(rl.reset * 1000 - t, BASE_BACKOFF_MS)
  ELSE BASE_BACKOFF_MS

nextBackoffDelay(attempt, rl, t) ==
  LET backoff == BASE_BACKOFF_MS * Pow2(attempt - 1)
  IN IF rl # NoRateLimit /\ rl.remaining = 0
     THEN Max(rl.reset * 1000 - t, backoff)
     ELSE backoff

\* mutant: an exhausted quota delays the first attempt until the reset time
\* and no longer
respectRateLimitUntilReset(rl, t) ==
  IF rl = NoRateLimit \/ rl.remaining > 0 THEN 0 ELSE Max(rl.reset * 1000 - t, 0)

\* mutant: an exhausted quota delays the first attempt by the base backoff only
respectRateLimitBaseOnly(rl, t) ==
  IF rl = NoRateLimit \/ rl.remaining > 0 THEN 0 ELSE BASE_BACKOFF_MS

\* respectRateLimit: the delay before the first attempt, 0 for none
respectRateLimit(rl, t) ==
  IF rl = NoRateLimit \/ rl.remaining > 0 THEN 0
  ELSE Max(rl.reset * 1000 - t, BASE_BACKOFF_MS)

\* mutant: fetchPR rethrows NotFound
ThrownResultNoNull(o, e) ==
  IF o = "validateToken" /\ e.kind = "Unauthorized" THEN [tag |-> "false", val |-> ""]
  ELSE [tag |-> "error", val |-> e.kind]

\* mutant: validateToken answers false for Forbidden as well
ThrownResultForbiddenFalse(o, e) ==
  IF o = "fetchPR" /\ e.kind = "NotFound" THEN [tag |-> "null", val |-> ""]
  ELSE IF o = "validateToken" /\ e.kind \in {"Unauthorized", "Forbidden"}
  THEN [tag |-> "false", val |-> ""]
  ELSE [tag |-> "error", val |-> e.kind]

\* mutant: every error that is neither null nor false is raised as a generic one
ThrownResultGeneric(o, e) ==
  IF o = "fetchPR" /\ e.kind = "NotFound" THEN [tag |-> "null", val |-> ""]
  ELSE IF o = "validateToken" /\ e.kind = "Unauthorized" THEN [tag |-> "false", val |-> ""]
  ELSE [tag |-> "error", val |-> "RequestError"]

\* the catch clauses of fetchPR and validateToken, and the plain throw of fetchPRs
ThrownResult(o, e) ==
  IF o = "fetchPR" /\ e.kind = "NotFound" THEN [tag |-> "null", val |-> ""]
  ELSE IF o = "validateToken" /\ e.kind = "Unauthorized" THEN [tag |-> "false", val |-> ""]
  ELSE [tag |-> "error", val |-> e.kind]

ReturnedResult(o, body) ==
  IF o = "validateToken" THEN [tag |-> "true", val |-> ""]
  ELSE [tag |-> "value", val |-> body]

\* ------------------------------------------------------------ the cache

\* mutant: the lookup always misses
CacheGetMiss(c, k, t) == NoEntry

\* mutant: the lookup ignores the expiry
CacheGetStale(c, k, t) == c[k]

CacheGet(c, k, t) == IF c[k].tag # "empty" /\ t < c[k].expiresAt THEN c[k] ELSE NoEntry

CachePut(c, k, res, t, ttl) ==
  [c EXCEPT ![k] = [tag |-> res.tag, val |-> res.val, expiresAt |-> t + ttl]]

Cacheable(o, res) == o = "fetchPR" /\ res.tag \in {"value", "null"}

\* mutant: the cache is used whatever the configuration
UseCacheAlways(enabled) == TRUE

\* the cache is used when the configuration enables it
UseCache(enabled) == enabled

\* the cache after operation o of caller p resolves to res
CacheAfter(p, res) ==
  IF UseCache(cacheEnabled) /\ Cacheable(op[p], res)
  THEN CachePut(cache, key[p], res, now, cacheTTL)
  ELSE cache

LastFetchAfter(p, res) ==
  IF (cacheEnabled \/ history) /\ Cacheable(op[p], res)
  THEN [lastFetch EXCEPT ![key[p]] = [tag |-> res.tag, val |-> res.val, at |-> now, n |-> issued[p]]]
  ELSE lastFetch

\* ------------------------------------------------ inputs: PR links
\* a link is written from a scheme ("" for none), a host, an owner, a repo,
\* the kind of page, a number segment, a suffix and a wrapping

Shape(scheme, host, owner, repo, kind, number, suffix, wrap) ==
  [scheme |-> scheme, host |-> host, owner |-> owner, repo |-> repo, kind |-> kind,
   number |-> number, suffix |-> suffix, wrap |-> wrap]

Slash == <<"/">>

\* the path of a page of the kind
LinkPath(sh) ==
  CASE sh.kind = "pull" ->
         Slash \o sh.owner \o Slash \o sh.repo \o <<"/", "p", "u", "l", "l", "/">> \o sh.number
    [] sh.kind = "issues" ->
         Slash \o sh.owner \o Slash \o sh.repo \o <<"/", "i", "s", "s", "u", "e", "s", "/">> \o sh.number
    [] sh.kind = "api" ->
         <<"/", "r", "e", "p", "o", "s", "/">> \o sh.owner \o Slash \o sh.repo \o <<"/", "p", "u", "l", "l", "s", "/">> \o sh.number
    [] OTHER -> Slash \o sh.owner \o Slash \o sh.repo

Unwrapped(sh) ==
  (IF sh.scheme = <<>> THEN <<>> ELSE sh.scheme \o <<":", "/", "/">>)
    \o sh.host \o LinkPath(sh) \o sh.suffix

\* the text of the link: plain, padded with blanks, or as Slack writes it
Render(sh) ==
  CASE sh.wrap = "plain" -> Unwrapped(sh)
    [] sh.wrap = "padded" -> <<" ">> \o Unwrapped(sh) \o <<" ">>
    [] sh.wrap = "angle" -> <<"<">> \o Unwrapped(sh) \o <<">">>
    [] sh.wrap = "label" -> <<"<">> \o Unwrapped(sh) \o <<"|", "P", "R", " ", "1", ">">>

Schemes == {<<"h", "t", "t", "p", "s">>, <<"h", "t", "t", "p">>, <<"f", "t", "p">>, <<>>}
GitHubHosts ==
  {<<"g", "i", "t", "h", "u", "b", ".", "c", "o", "m">>,
   <<"w", "w", "w", ".", "g", "i", "t", "h", "u", "b", ".", "c", "o", "m">>,
   <<"G", "i", "t", "H", "u", "b", ".", "c", "o", "m">>}
APIHost == <<"a", "p", "i", ".", "g", "i", "t", "h", "u", "b", ".", "c", "o", "m">>
OtherHost == <<"g", "i", "t", "l", "a", "b", ".", "c", "o", "m">>
Hosts == GitHubHosts \cup {APIHost, OtherHost}
Kinds == {"pull", "issues", "api", "repo"}
NumberSegments ==
  {<<"1">>, <<"1", "2">>, <<"0", "7">>, <<"0">>, <<"-", "1">>, <<"a", "b", "c">>, <<>>}
Suffixes == {<<>>, <<"/", "f", "i", "l", "e", "s">>, <<"?", "r", "e", "f", "=", "x">>, <<"?", "t", "a", "b", "=", "f", "i", "l", "e", "s">>, <<"#", "d">>}
Wraps == {"plain", "padded", "angle", "label"}
Owner2 == <<"a", "-", "b">>

\* every scheme, host, kind and number segment, bare; and pull-request pages
\* with every suffix and wrapping
Shapes ==
  {Shape(sc, h, Octo, Repo, k, n, <<>>, "plain") :
     sc \in Schemes, h \in Hosts, k \in Kinds, n \in NumberSegments}
  \cup {Shape(sc, h, Owner2, Repo, "pull", n, sf, w) :
          sc \in {<<"h", "t", "t", "p", "s">>, <<"h", "t", "t", "p">>},
          h \in {<<"g", "i", "t", "h", "u", "b", ".", "c", "o", "m">>, <<"w", "w", "w", ".", "g", "i", "t", "h", "u", "b", ".", "c", "o", "m">>},
          n \in {<<"1">>, <<"0">>}, sf \in Suffixes, w \in Wraps}

Link(sh) == [shape |-> sh, text |-> Render(sh)]
NoLink == [shape |-> Shape(<<>>, <<>>, <<>>, <<>>, "repo", <<>>, <<>>, "plain"), text |-> <<>>]
\* a pull-request link made longer than isValidGitHubPRUrl accepts by its query
LongShape ==
  Shape(<<"h", "t", "t", "p", "s">>, <<"g", "i", "t", "h", "u", "b", ".", "c", "o", "m">>,
        Octo, Repo, "pull", <<"1">>, <<"?">> \o [i \in 1..MAX_URL_LENGTH |-> "x"], "plain")

Links == {Link(sh) : sh \in Shapes \cup {LongShape}} \cup {NoLink}

\* a function of the link utilities has not been called yet
NotCalled == [called |-> FALSE]
Returned(value) == [called |-> TRUE, value |-> value]

NoMessage == [links |-> <<>>, text |-> <<>>]

\* ---- inputs: messages
\* a message names links, each one written plain or as Slack writes it and
\* set in the sentence bare, in parentheses, or before a full stop or a comma

Https == <<"h", "t", "t", "p", "s">>
Http == <<"h", "t", "t", "p">>
GitHub == <<"g", "i", "t", "h", "u", "b", ".", "c", "o", "m">>
WWWGitHub == <<"w", "w", "w", ".", "g", "i", "t", "h", "u", "b", ".", "c", "o", "m">>

Mention(sh, open, close) == [shape |-> sh, open |-> open, close |-> close]
Bare(sh) == Mention(sh, <<>>, <<>>)

PullOne == Shape(Https, GitHub, Octo, Repo, "pull", <<"1">>, <<>>, "plain")
PullOneWWW == Shape(Http, WWWGitHub, Octo, Repo, "pull", <<"1">>, <<>>, "angle")
PullTwo == Shape(Https, GitHub, Octo, Repo, "pull", <<"2">>, <<>>, "plain")
IssueOne == Shape(Https, GitHub, Octo, Repo, "issues", <<"1">>, <<>>, "plain")

MentionShapes ==
  {PullOne, PullOneWWW, PullTwo, IssueOne,
   Shape(Https, GitHub, Octo, Repo, "pull", <<"1">>, <<>>, "label"),
   Shape(Https, APIHost, Octo, Repo, "api", <<"1">>, <<>>, "plain"),
   Shape(Http, GitHub, Octo, Repo, "pull", <<"1">>, <<"/", "f", "i", "l", "e", "s">>, "plain"),
   Shape(Https, WWWGitHub, Octo, Repo, "pull", <<"2">>, <<>>, "label"),
   Shape(Https, GitHub, Owner2, Repo, "pull", <<"1">>, <<>>, "plain"),
   Shape(Https, OtherHost, Octo, Repo, "pull", <<"1">>, <<>>, "plain"),
   Shape(Https, GitHub, Octo, Repo, "pull", <<"0">>, <<>>, "plain"),
   Shape(Https, GitHub, Octo, Repo, "issues", <<"1">>, <<>>, "label"),
   Shape(Https, GitHub, Octo, Repo, "repo", <<>>, <<>>, "plain")}

Mentions ==
  {Bare(sh) : sh \in MentionShapes}
  \cup {Mention(sh, d[1], d[2]) :
          sh \in {PullOne, PullTwo, IssueOne},
          d \in {<<<<"(">>, <<")">>>>, <<<<>>, <<".">>>>, <<<<>>, <<",">>>>}}

\* one or two mentions of any kind, or three bare ones
MentionLists ==
  {<<m>> : m \in Mentions}
  \cup {<<m, n>> : m \in Mentions, n \in Mentions}
  \cup {<<m, n, o>> : m \in {Bare(PullOne), Bare(PullOneWWW), Bare(PullTwo), Bare(IssueOne)},
                      n \in {Bare(PullOne), Bare(PullOneWWW), Bare(PullTwo), Bare(IssueOne)},
                      o \in {Bare(PullOne), Bare(PullOneWWW), Bare(PullTwo), Bare(IssueOne)}}

RECURSIVE Sentence(_)
Sentence(mentions) ==
  IF mentions = <<>> THEN <<"o", "k">>
  ELSE mentions[1].open \o Render(mentions[1].shape) \o mentions[1].close
         \o <<" ", "a", "n", "d", " ">> \o Sentence(Tail(mentions))

Message(mentions) ==
  [links |-> [i \in 1..Len(mentions) |-> mentions[i].shape],
   text |-> <<"S", "e", "e", " ">> \o Sentence(mentions)]

Messages == {Message(mentions) : mentions \in MentionLists}

\* ---- inputs: messages whose links have numbers of every length
\* a number with leading zeros, one of ExactDigits digits, 10^20 and 10^21
Zeros(k) == [i \in 1..k |-> "0"]

NumberShapes ==
  {Shape(Https, GitHub, Octo, Repo, "pull", numeral, <<>>, "plain") :
     numeral \in {<<"0", "0", "7">>, <<"1", "2", "3", "4", "5", "6", "7", "8", "9">>,
                  <<"1">> \o Zeros(20), <<"1">> \o Zeros(21), <<"9">> \o Zeros(22)}}
  \cup {Shape(Http, WWWGitHub, Octo, Repo, "pull", <<"1">> \o Zeros(21), <<>>, "angle")}

ElementMentions == Mentions \cup {Bare(sh) : sh \in NumberShapes}

ElementMessages ==
  {Message(<<m>>) : m \in ElementMentions}
  \cup {Message(<<m, n>>) : m \in {Bare(sh) : sh \in NumberShapes}, n \in ElementMentions}

\* ---- inputs: tracked PRs
\* a channel id, an owner, a repo and a number; some owners and repos are
\* outside the character class [A-Za-z0-9_.-]

Channels == {<<"C", "1">>, <<"C", "1", ":">>, <<"C", "1", ":", ":", "o">>}
TrackedOwners == {<<"o">>, <<"o", "-", "r">>, <<"o", ":", ":", "r">>}
TrackedRepos == {<<"r">>, <<"r", "-", "r">>, <<"r", ":", ":", "r">>}
TrackedNumbers == {1, 11, 2}

Tracked(channel_id, owner, repo, number) ==
  [channel_id |-> channel_id, owner |-> owner, repo |-> repo, number |-> number]

TrackedPRs ==
  {Tracked(c, o, r, n) : c \in Channels, o \in TrackedOwners, r \in TrackedRepos,
                         n \in TrackedNumbers}

\* ------------------------------------------------------------- Init

InitCommon ==
  /\ now = 0
  /\ token \in BOOLEAN
  /\ cacheTTL \in TTLs
  /\ rateLimit = NoRateLimit
  /\ cache = [k \in Keys |-> NoEntry]
  /\ pc = [p \in ProcIds |-> "idle"]
  /\ op = [p \in ProcIds |-> "none"]
  /\ key = [p \in ProcIds |-> 0]
  /\ stack = [p \in ProcIds |-> <<>>]
  /\ status = [p \in ProcIds |-> 0]
  /\ err = [p \in ProcIds |-> NoError]
  /\ wakeAt = [p \in ProcIds |-> 0]
  /\ result = [p \in ProcIds |-> NoResult]
  /\ issued = [p \in ProcIds |-> 0]
  /\ lastKind = [p \in ProcIds |-> "none"]
  /\ decAt = [p \in ProcIds |-> 0]
  /\ decReset = [p \in ProcIds |-> -1]
  /\ allTransient = [p \in ProcIds |-> TRUE]
  /\ allNetwork = [p \in ProcIds |-> TRUE]
  /\ hit = [p \in ProcIds |-> FALSE]
  /\ early = [p \in ProcIds |-> FALSE]
  /\ query = [p \in ProcIds |-> NoQuery]
  /\ got = [p \in ProcIds |-> NoRateLimit]
  /\ lastFetch = [k \in Keys |-> [tag |-> "empty", val |-> "", at |-> 0, n |-> 0]]
  /\ lastQuota = NoQuota

\* the PR link utilities are not in use
NoSubject ==
  /\ subject = "none"
  /\ link = NoLink
  /\ valid = NotCalled
  /\ info = NotCalled
  /\ message = NoMessage
  /\ extracted = NotCalled
  /\ again = NotCalled
  /\ tracked = <<>>
  /\ ids = NotCalled

\* one caller, the client as the source has it: no cache
Init ==
  /\ InitCommon
  /\ NoSubject
  /\ procs = {1}
  /\ ops = Ops
  /\ args = {Args(Octo, Repo, PRNumber(1))} \cup OddArgs
  /\ quota = "any"
  /\ statuses = Statuses
  /\ cacheEnabled = FALSE
  /\ horizon = MaxNowMs
  /\ history = FALSE

\* one caller, the cache configured on or off
InitCache ==
  /\ InitCommon
  /\ NoSubject
  /\ procs = {1}
  /\ ops = {"fetchPR"}
  /\ args = ValidArgs
  /\ quota = "few"
  /\ statuses = Statuses
  /\ cacheEnabled \in BOOLEAN
  /\ horizon = MaxNowMs
  /\ history = FALSE

\* one caller of fetchPRs, a remote with every status and malformed headers
InitRemote ==
  /\ InitCommon
  /\ NoSubject
  /\ procs = {1}
  /\ ops = {"fetchPRs"}
  /\ args = {Args(Octo, Repo, PRNumber(1))}
  /\ quota = "raw"
  /\ statuses = AllStatuses
  /\ cacheEnabled = FALSE
  /\ horizon = MaxNowMs
  /\ history = FALSE

\* one caller of fetchPR and of fetchPRs with options, no cache, the history
\* of fetchPR results kept
InitFacade ==
  /\ InitCommon
  /\ NoSubject
  /\ procs = {1}
  /\ ops = {"fetchPR", "fetchPRs"}
  /\ args = {ArgsWith(Octo, Repo, PRNumber(1), o) : o \in ListOptions}
  /\ quota = "few"
  /\ statuses = {200, 500}
  /\ cacheEnabled = FALSE
  /\ horizon = MaxNowMs
  /\ history = TRUE

\* two callers of validateToken share the client; the remote answers with
\* one of two different quotas
InitSnap ==
  /\ InitCommon
  /\ NoSubject
  /\ token = TRUE
  /\ procs = {1, 2}
  /\ ops = {"validateToken"}
  /\ args = {Args(Octo, Repo, PRNumber(1))}
  /\ quota = "snap"
  /\ statuses = {200, 500}
  /\ cacheEnabled = FALSE
  /\ horizon = SnapNowMs
  /\ history = FALSE

\* two callers of fetchPRs share the client
InitPair ==
  /\ InitCommon
  /\ NoSubject
  /\ token = TRUE
  /\ procs = {1, 2}
  /\ ops = {"fetchPRs"}
  /\ args = {Args(Octo, Repo, PRNumber(1))}
  /\ quota = "pair"
  /\ statuses = {200, 500}
  /\ cacheEnabled = FALSE
  /\ horizon = PairNowMs
  /\ history = FALSE

\* ------------------------------------------------------------ actions

\* mutant: the result is also handed to every other caller that awaits a response
FinishShared(p, res) ==
  /\ pc' = [pc EXCEPT ![p] = "done"]
  /\ result' = [q \in ProcIds |-> IF q = p \/ pc[q] = "fetching" THEN res ELSE result[q]]
  /\ cache' = CacheAfter(p, res)
  /\ lastFetch' = LastFetchAfter(p, res)

\* the request of caller p resolves: its operation returns or throws res
Finish(p, res) ==
  /\ pc' = [pc EXCEPT ![p] = "done"]
  /\ result' = [result EXCEPT ![p] = res]
  /\ cache' = CacheAfter(p, res)
  /\ lastFetch' = LastFetchAfter(p, res)

\* a frame decides to retry on snapshot rl: it waits and then calls
\* attemptRequest(attempt + 1) from `site` ("try" or "catch")
RetryOn(p, site, rl) ==
  LET attempt == Len(stack[p]) + 1
  IN /\ pc' = [pc EXCEPT ![p] = "wait"]
     /\ stack' = [stack EXCEPT ![p] = Append(@, site)]
     /\ wakeAt' = [wakeAt EXCEPT ![p] = now + nextBackoffDelay(attempt, rl, now)]
     /\ decAt' = [decAt EXCEPT ![p] = now]
     /\ decReset' = [decReset EXCEPT ![p] =
                       IF rl # NoRateLimit /\ rl.remaining = 0 THEN rl.reset ELSE -1]

Retry(p, site) == RetryOn(p, site, rateLimit)

\* an error leaves the running frame of caller p
Throw(p, e) ==
  /\ pc' = [pc EXCEPT ![p] = "throw"]
  /\ err' = [err EXCEPT ![p] = e]

\* the catch block of the running frame, entered with error e
\* (AbortError is handled where it is raised, in TimeoutAbort)
Catch(p, e) ==
  LET attempt == Len(stack[p]) + 1
      arg == IF e = TypeError THEN NoError ELSE e
  IN IF shouldRetry(arg, attempt, rateLimit)
     THEN /\ Retry(p, "catch")
          /\ err' = [err EXCEPT ![p] = NoError]
     ELSE /\ Throw(p, e)
          /\ UNCHANGED <<stack, wakeAt, decAt, decReset>>

\* a caller starts fetchPR, fetchPRs (with arguments a) or validateToken
Start(p, o, a) ==
  /\ pc[p] = "idle"
  /\ op' = [op EXCEPT ![p] = o]
  /\ LET path == PathOf(o, a)
         k == path.number
         entry == IF k \in Keys THEN CacheGet(cache, k, now) ELSE NoEntry
         delayMs == respectRateLimit(rateLimit, now)
     IN IF ~path.ok
        THEN \* buildPRPath throws
             /\ pc' = [pc EXCEPT ![p] = "done"]
             /\ key' = [key EXCEPT ![p] = 0]
             /\ result' = [result EXCEPT ![p] = ThrownResult(o, InvalidInputError)]
             /\ lastKind' = [lastKind EXCEPT ![p] = InvalidInputError.kind]
             /\ UNCHANGED <<wakeAt, issued, hit, decAt, decReset>>
        ELSE /\ key' = [key EXCEPT ![p] = IF o = "fetchPR" THEN k ELSE 0]
             /\ IF UseCache(cacheEnabled) /\ o = "fetchPR" /\ entry # NoEntry
                THEN \* cache hit
                     /\ pc' = [pc EXCEPT ![p] = "done"]
                     /\ result' = [result EXCEPT ![p] = [tag |-> entry.tag, val |-> entry.val]]
                     /\ hit' = [hit EXCEPT ![p] = TRUE]
                     /\ UNCHANGED <<wakeAt, issued, lastKind, decAt, decReset>>
                ELSE IF ensureToken(token) # NoError
                THEN \* ensureToken throws
                     /\ pc' = [pc EXCEPT ![p] = "done"]
                     /\ result' = [result EXCEPT ![p] = ThrownResult(o, ensureToken(token))]
                     /\ lastKind' = [lastKind EXCEPT ![p] = ensureToken(token).kind]
                     /\ UNCHANGED <<wakeAt, issued, hit, decAt, decReset>>
                ELSE \* request() is suspended in `await respectRateLimit(..)`
                     /\ pc' = [pc EXCEPT ![p] = "wait"]
                     /\ wakeAt' = [wakeAt EXCEPT ![p] = now + delayMs]
                     /\ decAt' = [decAt EXCEPT ![p] = now]
                     /\ decReset' = [decReset EXCEPT ![p] =
                           IF delayMs > 0 THEN rateLimit.reset ELSE -1]
                     /\ UNCHANGED <<result, issued, lastKind, hit>>
  /\ query' = [query EXCEPT ![p] = QueryOf(o, a)]
  /\ UNCHANGED <<linkvars, now, config, rateLimit, cache, stack, status, err, allTransient,
                 allNetwork, lastFetch, lastQuota, got, early>>

\* request() resumes after respectRateLimit, or the delay() timer of a retry
\* fires: the next attempt calls fetch
Wake(p) ==
  /\ pc[p] = "wait"
  /\ now >= wakeAt[p]
  /\ pc' = [pc EXCEPT ![p] = "fetching"]
  /\ issued' = [issued EXCEPT ![p] = @ + 1]
  /\ wakeAt' = [wakeAt EXCEPT ![p] = 0]
  /\ decAt' = [decAt EXCEPT ![p] = 0]
  /\ early' = [early EXCEPT ![p] = @ \/ SaysWait(rateLimit, now)]
  /\ UNCHANGED <<linkvars, now, config, rateLimit, cache, op, key, stack, status, err,
                 result, lastKind, decReset, allTransient, allNetwork, hit,
                 lastFetch, lastQuota, query, got>>

\* fetch resolves with a response: status st, quota headers h, body b
Respond(p, st, h, b) ==
  /\ pc[p] = "fetching"
  /\ rateLimit' = SnapshotAfter(st, h, rateLimit)
  /\ lastQuota' = IF Carried(h) THEN QuotaOf(h) ELSE lastQuota
  /\ IF st = 200
     THEN /\ Finish(p, ReturnedResult(op[p], b))
          /\ lastKind' = [lastKind EXCEPT ![p] = "OK"]
          /\ stack' = [stack EXCEPT ![p] = <<>>]
          /\ allTransient' = [allTransient EXCEPT ![p] = FALSE]
          /\ UNCHANGED status
     ELSE /\ pc' = [pc EXCEPT ![p] = "body"]
          /\ status' = [status EXCEPT ![p] = st]
          /\ lastKind' = [lastKind EXCEPT ![p] = createErrorForStatus(st).kind]
          /\ allTransient' = [allTransient EXCEPT ![p] = @ /\ st >= 500]
          /\ UNCHANGED <<result, cache, lastFetch, stack>>
  /\ allNetwork' = [allNetwork EXCEPT ![p] = FALSE]
  /\ UNCHANGED <<linkvars, now, config, op, key, err, wakeAt, issued, decAt, decReset, hit,
                 query, got, early>>

\* the error body has been read: the error is built and the retry decision taken
Classify(p) ==
  /\ pc[p] = "body"
  /\ LET attempt == Len(stack[p]) + 1
         error == createErrorForStatus(status[p])
     IN IF shouldRetry(error, attempt, rateLimit)
        THEN /\ Retry(p, "try")
             /\ UNCHANGED err
        ELSE Catch(p, error)
  /\ status' = [status EXCEPT ![p] = 0]
  /\ UNCHANGED <<linkvars, now, config, rateLimit, cache, op, key, result, query, got,
                 issued, lastKind, allTransient, allNetwork, hit, early, lastFetch, lastQuota>>

\* the timeout timer aborts the pending fetch: AbortError
TimeoutAbort(p) ==
  /\ pc[p] = "fetching"
  /\ lastKind' = [lastKind EXCEPT ![p] = "Timeout"]
  /\ IF shouldRetry(TimeoutError, Len(stack[p]) + 1, rateLimit)
     THEN /\ Retry(p, "catch")
          /\ UNCHANGED err
     ELSE /\ Throw(p, TimeoutError)
          /\ UNCHANGED <<stack, wakeAt, decAt, decReset>>
  /\ allNetwork' = [allNetwork EXCEPT ![p] = FALSE]
  /\ UNCHANGED <<linkvars, now, config, rateLimit, cache, op, key, status, result, query, got,
                 issued, allTransient, hit, early, lastFetch, lastQuota>>

\* a 2xx response with quota headers h arrives, and the timeout timer aborts
\* the read of its body: AbortError after the snapshot was updated
BodyAbort(p, h) ==
  /\ pc[p] = "fetching"
  /\ rateLimit' = SnapshotAfter(200, h, rateLimit)
  /\ lastQuota' = IF Carried(h) THEN QuotaOf(h) ELSE lastQuota
  /\ lastKind' = [lastKind EXCEPT ![p] = "Timeout"]
  /\ IF shouldRetry(TimeoutError, Len(stack[p]) + 1, rateLimit')
     THEN /\ RetryOn(p, "catch", rateLimit')
          /\ UNCHANGED err
     ELSE /\ Throw(p, TimeoutError)
          /\ UNCHANGED <<stack, wakeAt, decAt, decReset>>
  /\ allNetwork' = [allNetwork EXCEPT ![p] = FALSE]
  /\ UNCHANGED <<linkvars, now, config, cache, op, key, status, result, query, got,
                 issued, allTransient, hit, early, lastFetch>>

\* fetch rejects with a TypeError: no response
NetworkFail(p) ==
  /\ pc[p] = "fetching"
  /\ lastKind' = [lastKind EXCEPT ![p] = "TypeError"]
  /\ allTransient' = [allTransient EXCEPT ![p] = FALSE]
  /\ Catch(p, TypeError)
  /\ UNCHANGED <<linkvars, now, config, rateLimit, cache, op, key, status, result, query, got,
                 issued, allNetwork, hit, early, lastFetch, lastQuota>>

\* the error thrown by a frame reaches the await of its caller
Propagate(p) ==
  /\ pc[p] = "throw"
  /\ IF stack[p] = <<>>
     THEN \* request() rejects: the operation's own catch
          /\ Finish(p, ThrownResult(op[p], err[p]))
          /\ err' = [err EXCEPT ![p] = NoError]
          /\ UNCHANGED <<stack, wakeAt, decAt, decReset>>
     ELSE LET site == stack[p][Len(stack[p])]
              parent == SubSeq(stack[p], 1, Len(stack[p]) - 1)
          IN IF site = "try"
             THEN \* the await is inside the try block: the catch block runs
                  LET arg == IF err[p] = TypeError THEN NoError ELSE err[p]
                  IN IF shouldRetry(arg, Len(parent) + 1, rateLimit)
                     THEN /\ pc' = [pc EXCEPT ![p] = "wait"]
                          /\ stack' = [stack EXCEPT ![p] = Append(parent, "catch")]
                          /\ wakeAt' = [wakeAt EXCEPT ![p] =
                                now + nextBackoffDelay(Len(parent) + 1, rateLimit, now)]
                          /\ decAt' = [decAt EXCEPT ![p] = now]
                          /\ decReset' = [decReset EXCEPT ![p] =
                                IF rateLimit # NoRateLimit /\ rateLimit.remaining = 0
                                THEN rateLimit.reset ELSE -1]
                          /\ err' = [err EXCEPT ![p] = NoError]
                          /\ UNCHANGED <<result, cache, lastFetch>>
                     ELSE /\ stack' = [stack EXCEPT ![p] = parent]
                          /\ UNCHANGED <<pc, err, wakeAt, decAt, decReset, result, cache, lastFetch>>
             ELSE \* the await is inside the catch block: the error passes through
                  /\ stack' = [stack EXCEPT ![p] = parent]
                  /\ UNCHANGED <<pc, err, wakeAt, decAt, decReset, result, cache, lastFetch>>
  /\ UNCHANGED <<linkvars, now, config, rateLimit, op, key, status, query, got,
                 issued, lastKind, allTransient, allNetwork, hit, early, lastQuota>>

\* a caller calls getRateLimit
GetRateLimit(p) ==
  /\ pc[p] = "idle"
  /\ pc' = [pc EXCEPT ![p] = "done"]
  /\ op' = [op EXCEPT ![p] = "getRateLimit"]
  /\ result' = [result EXCEPT ![p] = [tag |-> "snapshot", val |-> ""]]
  /\ got' = [got EXCEPT ![p] = getRateLimit(rateLimit)]
  /\ UNCHANGED <<linkvars, now, config, rateLimit, cache, key, stack, status, err, wakeAt, query,
                 histvars, lastFetch, lastQuota>>

\* the caller takes the result; it may call again
Return(p) ==
  /\ pc[p] = "done"
  /\ pc' = [pc EXCEPT ![p] = "idle"]
  /\ op' = [op EXCEPT ![p] = "none"]
  /\ key' = [key EXCEPT ![p] = 0]
  /\ stack' = [stack EXCEPT ![p] = <<>>]
  /\ wakeAt' = [wakeAt EXCEPT ![p] = 0]
  /\ result' = [result EXCEPT ![p] = NoResult]
  /\ issued' = [issued EXCEPT ![p] = 0]
  /\ lastKind' = [lastKind EXCEPT ![p] = "none"]
  /\ decAt' = [decAt EXCEPT ![p] = 0]
  /\ decReset' = [decReset EXCEPT ![p] = -1]
  /\ allTransient' = [allTransient EXCEPT ![p] = TRUE]
  /\ allNetwork' = [allNetwork EXCEPT ![p] = TRUE]
  /\ hit' = [hit EXCEPT ![p] = FALSE]
  /\ early' = [early EXCEPT ![p] = FALSE]
  /\ query' = [query EXCEPT ![p] = NoQuery]
  /\ got' = [got EXCEPT ![p] = NoRateLimit]
  /\ UNCHANGED <<linkvars, now, config, rateLimit, cache, status, err, lastFetch, lastQuota>>

Tick ==
  /\ now < horizon
  /\ now' = now + TickMs
  /\ UNCHANGED <<linkvars, config, rateLimit, cache, reqvars, histvars, lastFetch, lastQuota>>

Next ==
  \/ \E p \in procs, o \in ops, a \in args : Start(p, o, a)
  \/ \E p \in procs : Wake(p)
  \/ \E p \in procs, r \in RemoteResponses, h \in QuotaHeaders :
       Respond(p, r.status, h, r.body)
  \/ \E p \in procs : Classify(p)
  \/ \E p \in procs : TimeoutAbort(p)
  \/ \E p \in procs, h \in QuotaHeaders : BodyAbort(p, h)
  \/ \E p \in procs : NetworkFail(p)
  \/ \E p \in procs : Propagate(p)
  \/ \E p \in procs : GetRateLimit(p)
  \/ \E p \in procs : Return(p)
  \/ Tick

Spec == Init /\ [][Next]_vars

SpecCache == InitCache /\ [][Next]_vars

SpecRemote == InitRemote /\ [][Next]_vars

SpecFacade == InitFacade /\ [][Next]_vars

SpecPair == InitPair /\ [][Next]_vars

SpecSnap == InitSnap /\ [][Next]_vars

TypeOK ==
  /\ now \in 0..(MaxNowMs + TickMs)
  /\ \A p \in ProcIds : Len(stack[p]) < MAX_RETRIES

\* --------------------------------------------- PR links (pr_utils.ts)

LowerCase == <<"a", "b", "c", "d", "e", "f", "g", "h", "i", "j", "k", "l", "m", "n", "o", "p", "q", "r", "s", "t", "u", "v", "w", "x", "y", "z">>
UpperCase == <<"A", "B", "C", "D", "E", "F", "G", "H", "I", "J", "K", "L", "M", "N", "O", "P", "Q", "R", "S", "T", "U", "V", "W", "X", "Y", "Z">>

\* String.prototype.toLowerCase
toLowerCase(text) ==
  [i \in 1..Len(text) |->
     IF \E j \in 1..Len(UpperCase) : UpperCase[j] = text[i]
     THEN LowerCase[CHOOSE j \in 1..Len(UpperCase) : UpperCase[j] = text[i]]
     ELSE text[i]]

\* the character class [a-zA-Z0-9]
Alphanumeric == IdentifierChars \ {"_", ".", "-"}

Least(S) == CHOOSE x \in S : \A y \in S : x <= y

StartsWith(text, part) == Len(text) >= Len(part) /\ SubSeq(text, 1, Len(part)) = part
Drop(text, n) == SubSeq(text, n + 1, Len(text))
Includes(text, c) == \E i \in 1..Len(text) : text[i] = c

\* the places where part occurs in text
Occurrences(text, part) ==
  {i \in 1..(Len(text) - Len(part) + 1) : SubSeq(text, i, i + Len(part) - 1) = part}

\* String.prototype.indexOf, counted from 1: 0 when part does not occur
IndexOf(text, part) ==
  IF Occurrences(text, part) = {} THEN 0 ELSE Least(Occurrences(text, part))

\* the length of the longest prefix of text without a character of `stops`
Span(text, stops) ==
  IF \E i \in 1..Len(text) : text[i] \in stops
  THEN Least({i \in 1..Len(text) : text[i] \in stops}) - 1
  ELSE Len(text)

\* the length of the longest prefix of text made of digits
DigitSpan(text) ==
  IF \E i \in 1..Len(text) : ~IsDigit(text[i])
  THEN Least({i \in 1..Len(text) : ~IsDigit(text[i])}) - 1
  ELSE Len(text)

RECURSIVE Split(_, _)
Split(text, sep) ==
  IF ~Includes(text, sep) THEN <<text>>
  ELSE <<SubSeq(text, 1, Span(text, {sep}))>> \o Split(Drop(text, Span(text, {sep}) + 1), sep)

RECURSIVE Join(_, _)
Join(texts, sep) ==
  IF texts = <<>> THEN <<>>
  ELSE IF Len(texts) = 1 THEN texts[1]
  ELSE texts[1] \o <<sep>> \o Join(Tail(texts), sep)

\* the element of a set of one element; The({e(v) : v \in {x}}) is e of the
\* value of x, computed once
The(S) == CHOOSE x \in S : TRUE

\* ---- new URL(text) and URL.prototype.toString
\* the texts of the model that parse are scheme "://" host, then a path, a
\* query and a fragment of characters that need no escaping; a text without
\* a scheme, or with an empty or ill-formed host, throws

SchemeChars == Alphanumeric \cup {"+", "-", "."}
HostChars == Alphanumeric \cup {"-", ".", "_"}

NoURL == [ok |-> FALSE, protocol |-> <<>>, hostname |-> <<>>, pathname |-> <<>>,
          search |-> <<>>, hash |-> <<>>]

\* the parts of a text whose "://" is at place c
URLParts(text, c) ==
  LET scheme == SubSeq(text, 1, c - 1)
      after == Drop(text, c + 2)
      host == SubSeq(after, 1, Span(after, {"/", "?", "#"}))
      rest == Drop(after, Len(host))
      path == SubSeq(rest, 1, Span(rest, {"?", "#"}))
      rest2 == Drop(rest, Len(path))
      search == IF rest2 # <<>> /\ rest2[1] = "?"
               THEN SubSeq(rest2, 2, Span(rest2, {"#"})) ELSE <<>>
      hash == Drop(rest2, Span(rest2, {"#"}))
  IN IF c <= 1 THEN NoURL
     ELSE IF scheme[1] \notin Alphanumeric \/ IsDigit(scheme[1]) THEN NoURL
     ELSE IF \E i \in 1..Len(scheme) : scheme[i] \notin SchemeChars THEN NoURL
     ELSE IF host = <<>> \/ \E i \in 1..Len(host) : host[i] \notin HostChars THEN NoURL
     ELSE [ok |-> TRUE, protocol |-> toLowerCase(scheme), hostname |-> toLowerCase(host),
           pathname |-> IF path = <<>> THEN <<"/">> ELSE path,
           search |-> search, hash |-> hash]

URL(input) ==
  The({The({URLParts(text, c) : c \in {IndexOf(text, <<":", "/", "/">>)}}) :
         text \in {trim(input)}})

toString(urlObj) ==
  urlObj.protocol \o <<":", "/", "/">> \o urlObj.hostname \o urlObj.pathname
    \o (IF urlObj.search = <<>> THEN <<>> ELSE <<"?">> \o urlObj.search)
    \o urlObj.hash

trackingParams ==
  {<<"u", "t", "m", "_", "s", "o", "u", "r", "c", "e">>,
   <<"u", "t", "m", "_", "m", "e", "d", "i", "u", "m">>,
   <<"u", "t", "m", "_", "c", "a", "m", "p", "a", "i", "g", "n">>,
   <<"r", "e", "f">>}

\* the name of a name=value pair of a query
ParamName(pair) == SubSeq(pair, 1, Span(pair, {"="}))

\* a pair as URLSearchParams writes it back
ParamText(pair) == IF Includes(pair, "=") THEN pair ELSE pair \o <<"=">>

\* searchParams.delete(param) for every tracking parameter: the query is
\* written back from the pairs that are left
deleteTrackingParams(search) ==
  LET pairs == SelectSeq(Split(search, "&"), LAMBDA pair : pair # <<>>)
      kept == SelectSeq(pairs, LAMBDA pair : ParamName(pair) \notin trackingParams)
  IN Join([i \in 1..Len(kept) |-> ParamText(kept[i])], "&")

\* ---- sanitizeUrl

\* the match of /^<([^|>]+)(?:\|[^>]+)?>$/: group 1
NoSlackLink == [ok |-> FALSE, url |-> <<>>]

SlackLink(cleaned) ==
  LET inner == SubSeq(cleaned, 2, Len(cleaned) - 1)
      target == SubSeq(inner, 1, Span(inner, {"|"}))
      label == Drop(inner, Len(target) + 1)
  IN IF Len(cleaned) < 3 \/ cleaned[1] # "<" \/ cleaned[Len(cleaned)] # ">" THEN NoSlackLink
     ELSE IF Includes(inner, ">") \/ target = <<>> THEN NoSlackLink
     ELSE IF Includes(inner, "|") /\ label = <<>> THEN NoSlackLink
     ELSE [ok |-> TRUE, url |-> target]

\* cleaned: the trimmed text, or the target of the Slack link it is
Cleaned(trimmed) ==
  IF StartsWith(trimmed, <<"<">>) /\ Includes(trimmed, ">") /\ SlackLink(trimmed).ok
  THEN SlackLink(trimmed).url ELSE trimmed

\* https for http, github.com for www.github.com, no tracking parameters
Rewritten(urlObj) ==
  [urlObj EXCEPT
     !.protocol = IF @ = <<"h", "t", "t", "p">> THEN <<"h", "t", "t", "p", "s">> ELSE @,
     !.hostname = IF @ = <<"w", "w", "w", ".", "g", "i", "t", "h", "u", "b", ".", "c", "o", "m">>
                  THEN <<"g", "i", "t", "h", "u", "b", ".", "c", "o", "m">> ELSE @,
     !.search = deleteTrackingParams(@)]

sanitizeUrl(url) ==
  IF url = <<>> THEN <<>>
  ELSE The({The({IF ~urlObj.ok THEN trim(cleaned)
                 ELSE The({toString(rewritten) : rewritten \in {Rewritten(urlObj)}}) :
                   urlObj \in {URL(cleaned)}}) :
              cleaned \in {Cleaned(trim(url))}})

\* ---- matchPRComponents

\* OWNER_SEGMENT and REPO_SEGMENT: [a-zA-Z0-9](?:[a-zA-Z0-9\-_.]{0,middle}[a-zA-Z0-9])?
IsSegment(text, middle) ==
  /\ text # <<>>
  /\ text[1] \in Alphanumeric
  /\ text[Len(text)] \in Alphanumeric
  /\ Len(text) <= middle + 2
  /\ \A i \in 1..Len(text) : text[i] \in IdentifierChars

OWNER_MIDDLE == 38
REPO_MIDDLE == 99

\* a PR number is number * 10^exponent; the exponent is 0 for every numeral
\* the model holds digit by digit
NoComponents == [null |-> TRUE, owner |-> <<>>, repo |-> <<>>, number |-> 0, exponent |-> 0]

\* the match of ^head(OWNER)/(REPO)/word/(\d+)(?:[/?#][^\s]*)?$ for one of `heads`
PatternMatch(url, heads, word) ==
  LET head == CHOOSE h \in heads : StartsWith(url, h)
      rest == Drop(url, Len(head))
      owner == SubSeq(rest, 1, Span(rest, {"/"}))
      rest2 == Drop(rest, Len(owner) + 1)
      repo == SubSeq(rest2, 1, Span(rest2, {"/"}))
      rest3 == Drop(rest2, Len(repo) + 1)
      rest4 == Drop(rest3, Len(word) + 1)
      numberStr == SubSeq(rest4, 1, DigitSpan(rest4))
      tail == Drop(rest4, Len(numberStr))
  IN IF ~\E h \in heads : StartsWith(url, h) THEN [ok |-> FALSE]
     ELSE IF ~IsSegment(owner, OWNER_MIDDLE) \/ ~IsSegment(repo, REPO_MIDDLE)
     THEN [ok |-> FALSE]
     ELSE IF ~StartsWith(rest3, word \o <<"/">>) \/ numberStr = <<>> THEN [ok |-> FALSE]
     ELSE IF tail # <<>> /\ tail[1] \notin {"/", "?", "#"} THEN [ok |-> FALSE]
     ELSE IF \E i \in 1..Len(tail) : tail[i] \in Whitespace THEN [ok |-> FALSE]
     ELSE [ok |-> TRUE, owner |-> owner, repo |-> repo, numberStr |-> numberStr]

\* ^https?:\/\/(?:www\.)?github\.com\/
UIHeads ==
  {<<"h", "t", "t", "p", "s", ":", "/", "/", "g", "i", "t", "h", "u", "b", ".", "c", "o", "m", "/">>,
   <<"h", "t", "t", "p", ":", "/", "/", "g", "i", "t", "h", "u", "b", ".", "c", "o", "m", "/">>,
   <<"h", "t", "t", "p", "s", ":", "/", "/", "w", "w", "w", ".", "g", "i", "t", "h", "u", "b", ".", "c", "o", "m", "/">>,
   <<"h", "t", "t", "p", ":", "/", "/", "w", "w", "w", ".", "g", "i", "t", "h", "u", "b", ".", "c", "o", "m", "/">>}

\* ^https?:\/\/api\.github\.com\/repos\/
APIHeads ==
  {<<"h", "t", "t", "p", "s", ":", "/", "/", "a", "p", "i", ".", "g", "i", "t", "h", "u", "b", ".", "c", "o", "m", "/", "r", "e", "p", "o", "s", "/">>,
   <<"h", "t", "t", "p", ":", "/", "/", "a", "p", "i", ".", "g", "i", "t", "h", "u", "b", ".", "c", "o", "m", "/", "r", "e", "p", "o", "s", "/">>}

Pull == <<"p", "u", "l", "l">>
Pulls == <<"p", "u", "l", "l", "s">>

ExactDigits == 9

RECURSIVE Significant(_)
Significant(numeral) ==
  IF numeral # <<>> /\ numeral[1] = "0" THEN Significant(Tail(numeral)) ELSE numeral

\* parseInt(numberStr, 10) of a decimal numeral: the value of a numeral of up
\* to ExactDigits significant digits, and d * 10^k for a longer numeral, which
\* in the model is a digit d followed by k zeros
parseInt(numberStr) ==
  The({IF Len(digits) <= ExactDigits
       THEN [number |-> DecimalValue(digits), exponent |-> 0]
       ELSE [number |-> DigitValue(digits[1]), exponent |-> Len(digits) - 1] :
         digits \in {Significant(numberStr)}})

\* mutant: number 0 is accepted
ComponentsOfAny(match) ==
  The({[null |-> FALSE, owner |-> trim(match.owner), repo |-> trim(match.repo),
        number |-> n.number, exponent |-> n.exponent] :
         n \in {parseInt(match.numberStr)}})

\* owner, repo and parseInt(numberStr, 10) of a match, null for number 0
ComponentsOf(match) ==
  The({IF n.number > 0
       THEN [null |-> FALSE, owner |-> trim(match.owner), repo |-> trim(match.repo),
             number |-> n.number, exponent |-> n.exponent]
       ELSE NoComponents :
         n \in {parseInt(match.numberStr)}})

matchPRComponents(url) ==
  The({IF uiMatch.ok THEN ComponentsOf(uiMatch)
       ELSE The({IF apiMatch.ok THEN ComponentsOf(apiMatch) ELSE NoComponents :
                   apiMatch \in {PatternMatch(url, APIHeads, Pulls)}}) :
         uiMatch \in {PatternMatch(url, UIHeads, Pull)}})

\* ---- isValidGitHubPRUrl and parseGitHubPRUrl

\* head[^/]+\/[^/]+\/word\/\d+ matches somewhere in text
QuickMatch(text, head, word) ==
  \E i \in Occurrences(text, head) :
    LET rest == Drop(text, i + Len(head) - 1)
        first == SubSeq(rest, 1, Span(rest, {"/"}))
        rest2 == Drop(rest, Len(first) + 1)
        second == SubSeq(rest2, 1, Span(rest2, {"/"}))
        rest3 == Drop(rest2, Len(second) + 1)
        rest4 == Drop(rest3, Len(word) + 1)
    IN /\ first # <<>> /\ second # <<>>
       /\ StartsWith(rest3, word \o <<"/">>)
       /\ rest4 # <<>> /\ IsDigit(rest4[1])

GITHUB_URL_QUICK_CHECK(text) ==
  \/ QuickMatch(text, <<"g", "i", "t", "h", "u", "b", ".", "c", "o", "m", "/">>, Pull)
  \/ QuickMatch(text, <<"a", "p", "i", ".", "g", "i", "t", "h", "u", "b", ".", "c", "o", "m", "/", "r", "e", "p", "o", "s", "/">>, Pulls)

isValidGitHubPRUrl(url) ==
  IF url = <<>> THEN FALSE
  ELSE IF Len(url) > MAX_URL_LENGTH THEN FALSE
  ELSE \E sanitized \in {sanitizeUrl(url)} :
         /\ GITHUB_URL_QUICK_CHECK(sanitized)
         /\ ~matchPRComponents(sanitized).null

\* mutant: the link is parsed without the validation before it
parseGitHubPRUrlUnchecked(url) ==
  IF url = <<>> THEN NoComponents
  ELSE The({matchPRComponents(sanitized) : sanitized \in {sanitizeUrl(url)}})

parseGitHubPRUrl(url) ==
  IF url = <<>> THEN NoComponents
  ELSE IF ~isValidGitHubPRUrl(url) THEN NoComponents
  ELSE The({matchPRComponents(sanitized) : sanitized \in {sanitizeUrl(url)}})

\* ---- links in a message

\* the grave accent, a character that a string of this module cannot hold
Backtick == "grave"

LEADING_WRAPPER_CHARS == {"(", "[", "{", "\"", "'", Backtick}
TRAILING_WRAPPER_CHARS == {")", "]", "}", ".", ",", "!", "?", ":", ";", "\"", "'", Backtick}

\* value.trimStart() and value.trimEnd()
RECURSIVE trimStart(_)
trimStart(value) ==
  IF value # <<>> /\ value[1] \in Whitespace THEN trimStart(Tail(value)) ELSE value

RECURSIVE trimEnd(_)
trimEnd(value) ==
  IF value # <<>> /\ value[Len(value)] \in Whitespace
  THEN trimEnd(SubSeq(value, 1, Len(value) - 1)) ELSE value

\* the two loops of stripMessageWrapping
RECURSIVE StripLeading(_)
StripLeading(value) ==
  IF value # <<>> /\ value[1] \in LEADING_WRAPPER_CHARS
  THEN StripLeading(trimStart(Tail(value))) ELSE value

RECURSIVE StripTrailing(_)
StripTrailing(value) ==
  IF value # <<>> /\ value[Len(value)] \in TRAILING_WRAPPER_CHARS
  THEN StripTrailing(trimEnd(SubSeq(value, 1, Len(value) - 1))) ELSE value

stripMessageWrapping(value) == StripTrailing(StripLeading(trim(value)))

NoCandidate == [null |-> TRUE, url |-> <<>>]

ExponentialFrom == 21

\* Number.prototype.toString of number * 10^exponent: the digits below 10^21,
\* the exponential notation from there on
NumberToString(number, exponent) ==
  IF exponent < ExponentialFrom THEN ToText(number) \o [i \in 1..exponent |-> "0"]
  ELSE ToText(number) \o <<"e", "+">> \o ToText(exponent)

\* the template https://github.com/${owner}/${repo}/pull/${number}
Canonical(prInfo) ==
  [null |-> FALSE,
   url |-> <<"h", "t", "t", "p", "s", ":", "/", "/", "g", "i", "t", "h", "u", "b", ".", "c", "o", "m", "/">>
             \o prInfo.owner \o Slash \o prInfo.repo \o <<"/", "p", "u", "l", "l", "/">>
             \o NumberToString(prInfo.number, prInfo.exponent)]

\* the recovery loop of normalizeCandidateUrl: one trailing wrapper character
\* less at a time, until the rest parses
RECURSIVE Recover(_)
Recover(trimmed) ==
  IF trimmed = <<>> \/ trimmed[Len(trimmed)] \notin TRAILING_WRAPPER_CHARS THEN NoCandidate
  ELSE The({The({IF ~retryInfo.null THEN Canonical(retryInfo) ELSE Recover(shorter) :
                   retryInfo \in {The({parseGitHubPRUrl(retrySanitized) :
                                          retrySanitized \in {sanitizeUrl(shorter)}})}}) :
              shorter \in {trimEnd(SubSeq(trimmed, 1, Len(trimmed) - 1))}})

\* a variant of Normalized that keeps the link as it was written
NormalizedAsWritten(candidate, prInfo) ==
  IF ~prInfo.null THEN [null |-> FALSE, url |-> candidate] ELSE Recover(candidate)

\* the link a candidate parses to, or what the recovery loop finds
Normalized(candidate, prInfo) ==
  IF ~prInfo.null THEN Canonical(prInfo) ELSE Recover(candidate)

normalizeCandidateUrl(rawCandidate) ==
  The({The({Normalized(candidate, prInfo) :
              prInfo \in {The({parseGitHubPRUrl(sanitized) :
                                  sanitized \in {sanitizeUrl(candidate)}})}}) :
         candidate \in {stripMessageWrapping(rawCandidate)}})

\* GITHUB_PR_MESSAGE_PATTERN, without regard to case:
\* the heads https?://(www\.|api\.)?github\.com/
MessageHeads ==
  {sc \o <<":", "/", "/">> \o sub \o <<"g", "i", "t", "h", "u", "b", ".", "c", "o", "m", "/">> :
     sc \in {<<"h", "t", "t", "p", "s">>, <<"h", "t", "t", "p">>},
     sub \in {<<>>, <<"w", "w", "w", ".">>, <<"a", "p", "i", ".">>}}

\* the length of the head the text starts with, 0 when it starts with none
HeadAt(text) ==
  LET Starts(h) == Len(text) >= Len(h) /\ toLowerCase(SubSeq(text, 1, Len(h))) = h
  IN IF text = <<>> \/ text[1] \notin {"h", "H"} THEN 0
     ELSE IF \E h \in MessageHeads : Starts(h)
     THEN Len(CHOOSE h \in MessageHeads : Starts(h)) ELSE 0

\* the length of a match of <https?://...github.com/[^>]+(?:\|[^>]+)?> at the
\* start of the text, 0 when there is none
WrappedAt(text) ==
  IF text = <<>> \/ text[1] # "<" \/ HeadAt(Tail(text)) = 0 THEN 0
  ELSE LET head == HeadAt(Tail(text))
           rest == Drop(text, 1 + head)
           run == Span(rest, {">"})
       IN IF run = 0 \/ run = Len(rest) THEN 0 ELSE 1 + head + run + 1

\* the length of a match of https?://...github.com/[^\s<>]+ at the start
PlainAt(text) ==
  IF HeadAt(text) = 0 THEN 0
  ELSE LET run == Span(Drop(text, HeadAt(text)), Whitespace \cup {"<", ">"})
       IN IF run = 0 THEN 0 ELSE HeadAt(text) + run

\* the length of a match of either alternative at the start of the text
MatchAt(text) == IF WrappedAt(text) > 0 THEN WrappedAt(text) ELSE PlainAt(text)

\* trimmed.matchAll(GITHUB_PR_MESSAGE_PATTERN): the matches from left to
\* right; from[i] is what the scan finds from position i on
matchAll(text) ==
  LET from[i \in 1..(Len(text) + 1)] ==
        IF i > Len(text) THEN <<>>
        ELSE IF MatchAt(Drop(text, i - 1)) > 0
        THEN <<SubSeq(text, i, i + MatchAt(Drop(text, i - 1)) - 1)>>
               \o from[i + MatchAt(Drop(text, i - 1))]
        ELSE from[i + 1]
  IN from[1]

InSeq(x, seq) == \E i \in 1..Len(seq) : seq[i] = x

\* the loop of extractPRUrlsFromMessage; results holds what deduped holds
RECURSIVE Collect(_, _)
Collect(matches, results) ==
  IF matches = <<>> THEN results
  ELSE LET normalized == normalizeCandidateUrl(matches[1])
       IN IF normalized.null \/ InSeq(normalized.url, results)
          THEN Collect(Tail(matches), results)
          ELSE Collect(Tail(matches), Append(results, normalized.url))

extractPRUrlsFromMessage(text) ==
  LET trimmed == trim(text)
  IN IF trimmed = <<>>
          \/ Occurrences(trimmed, <<"g", "i", "t", "h", "u", "b", ".", "c", "o", "m">>) = {}
     THEN <<>>
     ELSE The({Collect(matches, <<>>) : matches \in {matchAll(trimmed)}})

\* ---- the key of a tracked PR

Separator == <<":", ":">>

\* a variant of the key with a separator of the identifier characters
createTrackedPRKeyDashed(channelId, prInfo) ==
  channelId \o <<"-">> \o prInfo.owner \o <<"-">> \o prInfo.repo \o <<"-">> \o ToText(prInfo.number)

\* the template ${channelId}::${info.owner}::${info.repo}::${info.number}
createTrackedPRKey(channelId, prInfo) ==
  channelId \o Separator \o prInfo.owner \o Separator \o prInfo.repo
    \o Separator \o ToText(prInfo.number)

\* ---- the link utilities applied to an input

InitLinks ==
  /\ InitCommon
  /\ token = TRUE
  /\ procs = {1}
  /\ ops = Ops
  /\ args = ValidArgs
  /\ quota = "few"
  /\ statuses = Statuses
  /\ cacheEnabled = FALSE
  /\ horizon = MaxNowMs
  /\ history = FALSE
  /\ valid = NotCalled
  /\ info = NotCalled
  /\ extracted = NotCalled
  /\ again = NotCalled
  /\ ids = NotCalled
  /\ \/ subject = "url" /\ link \in Links /\ message = NoMessage /\ tracked = <<>>
     \/ subject = "message" /\ link = NoLink /\ message \in Messages /\ tracked = <<>>
     \/ subject = "element" /\ link = NoLink /\ message \in ElementMessages /\ tracked = <<>>
     \/ subject = "keys" /\ link = NoLink /\ message = NoMessage
          /\ tracked \in TrackedPRs \X TrackedPRs

Validate ==
  /\ subject = "url" /\ ~valid.called
  /\ valid' = Returned(isValidGitHubPRUrl(link.text))
  /\ UNCHANGED <<clientvars, subject, link, info, message, extracted, again, tracked, ids>>

Parse ==
  /\ subject = "url" /\ ~info.called
  /\ info' = Returned(parseGitHubPRUrl(link.text))
  /\ UNCHANGED <<clientvars, subject, link, valid, message, extracted, again, tracked, ids>>

Extract ==
  /\ subject \in {"message", "element"} /\ ~extracted.called
  /\ extracted' = Returned(extractPRUrlsFromMessage(message.text))
  /\ UNCHANGED <<clientvars, subject, link, valid, info, message, again, tracked, ids>>

\* each element of the list is parsed, and is given as a message of its own
Reapply ==
  /\ subject = "element" /\ extracted.called /\ ~again.called
  /\ again' = Returned([i \in 1..Len(extracted.value) |->
                          [info |-> parseGitHubPRUrl(extracted.value[i]),
                           urls |-> extractPRUrlsFromMessage(extracted.value[i])]])
  /\ UNCHANGED <<clientvars, subject, link, valid, info, message, extracted, tracked, ids>>

\* the key of each of the two tracked PRs is made
MakeKeys ==
  /\ subject = "keys" /\ ~ids.called
  /\ ids' = Returned([i \in 1..Len(tracked) |->
                        createTrackedPRKey(tracked[i].channel_id,
                                           [owner |-> tracked[i].owner, repo |-> tracked[i].repo,
                                            number |-> tracked[i].number])])
  /\ UNCHANGED <<clientvars, subject, link, valid, info, message, extracted, again, tracked>>

LinksNext ==
  \/ Validate
  \/ Parse
  \/ Extract
  \/ Reapply
  \/ MakeKeys

SpecLinks == InitLinks /\ [][LinksNext]_vars

\* ------------------------------------------------------------- claims

NonRetryable == {"Unauthorized", "NotFound", "UnprocessableEntity"}

\* a step in which caller p issues a network attempt (calls fetch)
Issues(p) == issued'[p] = issued[p] + 1

\* C1: a logical request issues at most 3 network attempts, whatever the
\* outcomes of its attempts.
C1_AttemptCeiling == \A p \in ProcIds : issued[p] <= MAX_RETRIES

\* C2: after an attempt classified Unauthorized, NotFound or
\* UnprocessableInput the request neither waits for a backoff nor issues
\* another network attempt, whatever the rate-limit snapshot shows.
C2_NonRetryableIsFinal ==
  \A p \in ProcIds :
    (pc[p] = "wait" \/ (pc[p] = "fetching" /\ issued[p] > 1))
      => lastKind[p] \notin NonRetryable

\* a step in which caller p starts fetchPR(k) while the last fetchPR(k) that
\* went to the network returned `tag` less than the cache TTL ago
SecondWithinTTL(p, k, tag) ==
  /\ cacheEnabled
  /\ pc[p] = "idle" /\ pc'[p] # "idle"
  /\ op'[p] = "fetchPR" /\ key'[p] = k
  /\ lastFetch[k].tag = tag
  /\ now < lastFetch[k].at + cacheTTL

\* C3 (as stated): two fetchPR calls for one key within the cache TTL, the
\* first successful, issue at most one network call in total, and the second
\* returns the resource of the first.
C3_OneCallInTotal ==
  [][\A p \in ProcIds, k \in Keys :
       SecondWithinTTL(p, k, "value")
         => /\ pc'[p] = "done"
            /\ result'[p] = [tag |-> "value", val |-> lastFetch[k].val]
            /\ lastFetch[k].n + issued'[p] <= 1]_vars

\* C3 (amended): the second of two fetchPR calls for one key, started within
\* the cache TTL of the first one's successful return, issues no network call
\* and returns the resource of the first.
C3_SecondFromCache ==
  [][\A p \in ProcIds, k \in Keys :
       SecondWithinTTL(p, k, "value")
         => /\ pc'[p] = "done"
            /\ result'[p] = [tag |-> "value", val |-> lastFetch[k].val]
            /\ issued'[p] = 0]_vars

C3_Witness ==
  \E p \in ProcIds :
    /\ pc[p] = "done" /\ op[p] = "fetchPR" /\ hit[p]
    /\ result[p].tag = "value" /\ issued[p] = 0
    /\ lastFetch[key[p]].n >= 2

\* C4: a fetchPR that the remote answers 404 returns null, and a second
\* fetchPR for that key before the TTL expires returns null without a
\* network call.
C4_NotFoundIsNullAndMemoized ==
  [][\A p \in ProcIds :
       /\ (op[p] = "fetchPR" /\ lastKind[p] = "NotFound" /\ pc[p] \in {"body", "throw"})
            => /\ pc'[p] \in {"body", "throw", "done"}
               /\ pc'[p] = "done" => result'[p].tag = "null"
       /\ \A k \in Keys :
            SecondWithinTTL(p, k, "null")
              => /\ pc'[p] = "done"
                 /\ result'[p].tag = "null"
                 /\ issued'[p] = 0]_vars

\* C5: a retry decided on a snapshot with remaining = 0 and reset time T is
\* not issued before T; a first attempt answered 403 with remaining = 0 is
\* retried, and when the second attempt is answered 200 the request returns
\* that response after exactly 2 attempts.
C5_RetryNotBeforeReset ==
  [][\A p \in ProcIds :
       /\ (Issues(p) /\ issued[p] >= 1 /\ decReset[p] >= 0)
            => now >= decReset[p] * 1000
       /\ (pc[p] = "body" /\ status[p] = 403 /\ issued[p] = 1
             /\ rateLimit # NoRateLimit /\ rateLimit.remaining = 0
             /\ pc'[p] # "body")
            => pc'[p] = "wait"
       /\ (pc[p] = "fetching" /\ issued[p] = 2 /\ lastKind[p] = "Forbidden"
             /\ lastKind'[p] = "OK")
            => /\ pc'[p] = "done"
               /\ result'[p].tag \in {"value", "true"}
               /\ issued'[p] = 2]_vars

C5_Witness ==
  \E p \in ProcIds :
    /\ pc[p] = "fetching" /\ issued[p] = 2 /\ lastKind[p] = "Forbidden"
    /\ decReset[p] >= 2 /\ now >= decReset[p] * 1000

\* C6: a request that starts while the snapshot shows remaining = 0 and a
\* reset time T in the future does not issue its first attempt at once, and
\* issues it at or after T.
C6_FirstAttemptNotBeforeReset ==
  [][\A p \in ProcIds :
       /\ (pc[p] = "idle" /\ rateLimit # NoRateLimit /\ rateLimit.remaining = 0
             /\ rateLimit.reset * 1000 > now)
            => /\ pc'[p] # "fetching"
               /\ pc'[p] = "wait" => wakeAt'[p] >= rateLimit.reset * 1000
       /\ (Issues(p) /\ issued[p] = 0 /\ decReset[p] >= 0)
            => now >= decReset[p] * 1000]_vars

C6_Witness ==
  \E p \in ProcIds :
    /\ pc[p] = "fetching" /\ issued[p] = 1
    /\ decReset[p] >= 2 /\ now >= decReset[p] * 1000

\* C7: a request whose attempts all end ServerError or Timeout is not given
\* up before its third attempt, and attempt n (n = 2, 3) is issued at least
\* BASE_BACKOFF_MS * 2^(n-2) after the failure before it.
C7_TransientRetriedWithBackoff ==
  [][\A p \in ProcIds :
       /\ (pc[p] # "done" /\ pc'[p] = "done" /\ allTransient'[p] /\ issued'[p] >= 1)
            => issued'[p] >= MAX_RETRIES
       /\ (Issues(p) /\ issued'[p] \in {2, 3})
            => now - decAt[p] >= BASE_BACKOFF_MS * Pow2(issued'[p] - 2)]_vars

C7_Witness ==
  \E p \in ProcIds :
    /\ pc[p] = "done" /\ allTransient[p] /\ issued[p] = MAX_RETRIES
    /\ result[p].tag = "error"
    /\ now = BASE_BACKOFF_MS + 2 * BASE_BACKOFF_MS

\* C8: an attempt classified Forbidden is followed by a retry exactly when
\* the snapshot shows remaining = 0 and fewer than 3 attempts have been made.
C8_ForbiddenRetriedIffNoQuota ==
  [][\A p \in ProcIds :
       /\ (pc[p] = "body" /\ status[p] = 403 /\ pc'[p] # "body"
             /\ rateLimit # NoRateLimit /\ rateLimit.remaining = 0
             /\ issued[p] < MAX_RETRIES)
            => pc'[p] = "wait"
       /\ (lastKind[p] = "Forbidden" /\ pc[p] # "wait" /\ pc'[p] = "wait")
            => /\ rateLimit # NoRateLimit /\ rateLimit.remaining = 0
               /\ issued[p] < MAX_RETRIES]_vars

C10_ValidateToken ==
  \A p \in ProcIds :
    (pc[p] = "done" /\ op[p] = "validateToken")
      => /\ lastKind[p] = "OK" => result[p].tag = "true"
         /\ result[p].tag = "false" <=> lastKind[p] = "Unauthorized"
         /\ lastKind[p] \notin {"OK", "Unauthorized"}
              => result[p] = [tag |-> "error", val |-> lastKind[p]]

C10_Witness ==
  \E p \in ProcIds :
    /\ pc[p] = "done" /\ op[p] = "validateToken" /\ result[p].tag = "false"
    /\ issued[p] = 1

\* a name that is empty or has a character outside [A-Za-z0-9_.-]
InvalidName(v) == v = <<>> \/ \E i \in 1..Len(v) : v[i] \notin IdentifierChars

\* arguments with an invalid owner or repo, or (fetchPR) a PR number that is
\* not a positive integer
InvalidInput(o, a) ==
  \/ InvalidName(a.owner)
  \/ InvalidName(a.repo)
  \/ o = "fetchPR" /\ ~(a.prNumber.integer /\ a.prNumber.value > 0)

\* C11: fetchPR or fetchPRs called with an invalid owner or repo, or with a
\* PR number that is not a positive integer, raises UnprocessableInput,
\* issues no network call, performs no wait and leaves the snapshot unchanged.
C11_InvalidInputRejected ==
  [][\A p \in ProcIds, o \in {"fetchPR", "fetchPRs"}, a \in args :
       (Start(p, o, a) /\ InvalidInput(o, a))
         => /\ pc'[p] = "done"
            /\ result'[p] = [tag |-> "error", val |-> "UnprocessableEntity"]
            /\ issued'[p] = 0
            /\ wakeAt'[p] = wakeAt[p]
            /\ rateLimit' = rateLimit]_vars

C13_LastErrorSurfaced ==
  \A p \in ProcIds :
    (pc[p] = "done" /\ issued[p] >= 2 /\ lastKind[p] # "OK")
      => \/ result[p] = [tag |-> "error", val |-> lastKind[p]]
         \/ result[p].tag = "null" /\ op[p] = "fetchPR" /\ lastKind[p] = "NotFound"
         \/ result[p].tag = "false" /\ op[p] = "validateToken"
              /\ lastKind[p] = "Unauthorized"

C13_Witness ==
  \E p \in ProcIds :
    /\ pc[p] = "done" /\ issued[p] = MAX_RETRIES /\ ~allTransient[p] /\ ~allNetwork[p]
    /\ result[p] = [tag |-> "error", val |-> "ServerError"]

HeaderEffect(h) ==
  /\ ~Carried(h) => rateLimit' = rateLimit
  /\ (Carried(h) /\ ~h.used.present)
       => /\ rateLimit' # NoRateLimit
          /\ rateLimit'.used = rateLimit'.limit - rateLimit'.remaining

\* C15: a response whose limit, remaining or reset header is missing or not
\* a number leaves the snapshot exactly as it was; when all three are
\* present and the used header is absent, used is limit - remaining.
C15_IncompleteHeadersNoOp ==
  [][\A p \in ProcIds, h \in QuotaHeaders :
       /\ \A r \in RemoteResponses : Respond(p, r.status, h, r.body) => HeaderEffect(h)
       /\ BodyAbort(p, h) => HeaderEffect(h)]_vars

\* C16: whenever the snapshot is set, used = limit - remaining.
C16_UsedIsLimitMinusRemaining ==
  rateLimit # NoRateLimit => rateLimit.used = rateLimit.limit - rateLimit.remaining

\* C17: the snapshot is absent on a new client, becomes set only by a
\* response that carries quota headers, and once set is never absent again.
C17_SnapshotLifecycle ==
  /\ rateLimit = NoRateLimit
  /\ [][/\ rateLimit # NoRateLimit => rateLimit' # NoRateLimit
        /\ (rateLimit = NoRateLimit /\ rateLimit' # NoRateLimit)
             => /\ lastQuota' # lastQuota
                /\ \E p \in ProcIds : pc[p] = "fetching" /\ pc'[p] # "fetching"]_vars

C17_Witness ==
  \E p \in ProcIds :
    /\ rateLimit # NoRateLimit /\ rateLimit.remaining = 0
    /\ pc[p] = "done" /\ issued[p] = MAX_RETRIES
    /\ result[p] = [tag |-> "error", val |-> "TypeError"]

\* the error kind the specification gives for a status outside 200..299
KindForStatus(st) ==
  CASE st = 401 -> "Unauthorized"
    [] st = 403 -> "Forbidden"
    [] st = 404 -> "NotFound"
    [] st = 422 -> "UnprocessableEntity"
    [] st \in 500..599 -> "ServerError"
    [] OTHER -> "RequestError"

\* C18: the error built for a response outside 2xx has the kind its status
\* alone determines: 401 Unauthorized, 403 Forbidden, 404 NotFound,
\* 422 UnprocessableInput, 500 and above ServerError, anything else Generic.
C18_KindFollowsStatus ==
  \A p \in ProcIds :
    /\ pc[p] = "body" => lastKind[p] = KindForStatus(status[p])
    /\ (pc[p] = "throw" /\ err[p] \notin {TypeError, TimeoutError})
         => err[p].kind = KindForStatus(err[p].status)

C18_Witness ==
  \E p \in ProcIds :
    /\ pc[p] = "throw" /\ err[p] = [kind |-> "ServerError", status |-> 599]
    /\ issued[p] = MAX_RETRIES

\* C19: an attempt aborted by its timeout before a response arrived is
\* classified Timeout (this is the error thrown when it is not retried and
\* the error the caller gets when it was the last attempt), and the abort
\* leaves the snapshot as it was.
C19_TimeoutIsTimeout ==
  [][\A p \in ProcIds :
       /\ TimeoutAbort(p)
            => /\ rateLimit' = rateLimit
               /\ lastKind'[p] = "Timeout"
               /\ pc'[p] \in {"wait", "throw"}
               /\ pc'[p] = "throw" => err'[p].kind = "Timeout"
       /\ (pc[p] = "throw" /\ pc'[p] = "done" /\ lastKind[p] = "Timeout")
            => result'[p] = [tag |-> "error", val |-> "Timeout"]]_vars

C19_Witness ==
  \E p \in ProcIds :
    /\ pc[p] = "done" /\ result[p] = [tag |-> "error", val |-> "Timeout"]
    /\ issued[p] = MAX_RETRIES /\ allTransient[p]
    /\ rateLimit # NoRateLimit /\ rateLimit.remaining > 0

\* C20: an attempt that fails with no response is retried, after at least
\* the backoff delay, while fewer than 3 attempts have been made; a request
\* whose attempts all fail this way ends with its 3rd attempt and raises
\* that failure.
C20_NetworkFailureRetried ==
  [][\A p \in ProcIds :
       /\ (NetworkFail(p) /\ issued[p] < MAX_RETRIES)
            => /\ pc'[p] = "wait"
               /\ wakeAt'[p] - now >= BASE_BACKOFF_MS
               /\ allNetwork[p]
                    => wakeAt'[p] - now >= BASE_BACKOFF_MS * Pow2(issued[p] - 1)
       /\ (NetworkFail(p) /\ allNetwork[p] /\ issued[p] = MAX_RETRIES)
            => pc'[p] = "throw"
       /\ (pc[p] # "done" /\ pc'[p] = "done" /\ allNetwork'[p] /\ issued'[p] >= 1)
            => /\ issued'[p] = MAX_RETRIES
               /\ result'[p] = [tag |-> "error", val |-> "TypeError"]]_vars

C20_Witness ==
  \E p \in ProcIds :
    /\ pc[p] = "done" /\ allNetwork[p] /\ issued[p] = MAX_RETRIES
    /\ result[p] = [tag |-> "error", val |-> "TypeError"]

\* a step in which caller p calls fetchPR(k) with well-formed arguments
StartsFetchPR(p, k) ==
  pc[p] = "idle" /\ pc'[p] # "idle" /\ op'[p] = "fetchPR" /\ key'[p] = k

\* a step in which the request of caller p resolves
Resolves(p) == pc[p] # "done" /\ pc'[p] = "done"

\* C21: a cache entry is served only before its expiry; a fetchPR for a key
\* whose entry was stored more than the TTL ago is a miss, issues a network
\* call, and its result replaces the expired entry.
C21_ExpiredEntryIsMiss ==
  [][\A p \in ProcIds, k \in Keys :
       /\ (StartsFetchPR(p, k) /\ hit'[p])
            => /\ cache[k].tag # "empty" /\ now < cache[k].expiresAt
               /\ result'[p] = [tag |-> cache[k].tag, val |-> cache[k].val]
       /\ (StartsFetchPR(p, k) /\ cacheEnabled /\ token
             /\ cache[k].tag # "empty" /\ now > cache[k].expiresAt)
            => pc'[p] = "wait" /\ ~hit'[p]
       /\ (Resolves(p) /\ op[p] = "fetchPR" /\ key[p] = k /\ token /\ ~hit'[p])
            => issued'[p] >= 1
       /\ (Resolves(p) /\ op[p] = "fetchPR" /\ key[p] = k /\ cacheEnabled
             /\ issued[p] >= 1 /\ result'[p].tag \in {"value", "null"})
            => cache'[k] = [tag |-> result'[p].tag, val |-> result'[p].val,
                            expiresAt |-> now + cacheTTL]]_vars

\* a fetchPR has gone to the network although the key has an entry, which
\* was stored more than the TTL ago
C21_Witness ==
  \E p \in ProcIds :
    /\ cacheEnabled /\ op[p] = "fetchPR" /\ pc[p] = "fetching"
    /\ cache[key[p]].tag = "value" /\ now > cache[key[p]].expiresAt

\* C22 (as stated): on a client with the cache disabled, every fetchPR call
\* issues at least one network call.
C22_AlwaysNetwork ==
  \A p \in ProcIds :
    (~cacheEnabled /\ op[p] = "fetchPR" /\ pc[p] = "done") => issued[p] >= 1

\* C22 (amended): on a client with a token and the cache disabled, every
\* fetchPR call with well-formed arguments goes to the network and issues at
\* least one network call, also when an identical call succeeded just before.
C22_DisabledCacheBypassed ==
  [][\A p \in ProcIds, k \in Keys :
       /\ (StartsFetchPR(p, k) /\ ~cacheEnabled /\ token)
            => pc'[p] = "wait" /\ ~hit'[p]
       /\ (Resolves(p) /\ op[p] = "fetchPR" /\ key[p] = k /\ ~cacheEnabled /\ token)
            => issued'[p] >= 1 /\ ~hit'[p]]_vars

\* a fetchPR is at the network although the identical call returned a
\* resource less than the TTL ago
C22_Witness ==
  \E p \in ProcIds :
    /\ ~cacheEnabled /\ op[p] = "fetchPR" /\ pc[p] = "fetching"
    /\ lastFetch[key[p]].tag = "value"
    /\ now < lastFetch[key[p]].at + cacheTTL

\* C26: getRateLimit returns the current snapshot, null when no response with
\* quota headers has been observed; it issues no network attempt, performs
\* no wait and leaves the snapshot unchanged.
C26_GetRateLimitIsPureRead ==
  [][\A p \in ProcIds :
       GetRateLimit(p)
         => /\ pc'[p] = "done"
            /\ got'[p] = rateLimit
            /\ lastQuota = NoQuota => got'[p] = NoRateLimit
            /\ lastQuota # NoQuota => got'[p] # NoRateLimit
            /\ rateLimit' = rateLimit
            /\ issued' = issued /\ wakeAt' = wakeAt /\ now' = now]_vars

C26_Witness ==
  \E p \in ProcIds :
    /\ op[p] = "getRateLimit" /\ pc[p] = "done"
    /\ got[p] # NoRateLimit /\ got[p] = rateLimit

\* C30: once an attempt of a request has received a 2xx response, no further
\* network attempt is issued for it and the caller is returned the body of
\* that response, also on attempt 2 or 3 after earlier failures.
C30_SuccessIsFinal ==
  [][\A p \in ProcIds, h \in QuotaHeaders :
       /\ \A b \in Bodies :
            Respond(p, 200, h, b)
              => pc'[p] = "done" /\ result'[p] = ReturnedResult(op[p], b)
       /\ BodyAbort(p, h) => pc'[p] # "wait"]_vars

\* the page size that C25 states for a perPage option
StatedPerPage(perPage) ==
  IF ~perPage.given THEN 30
  ELSE IF perPage.value < 1 THEN 1
  ELSE IF perPage.value > 100 THEN 100
  ELSE perPage.value

\* C25: for every perPage option given to fetchPRs, the per_page value sent is
\* within 1..100 (values below 1 become 1, values above 100 become 100,
\* absent becomes 30), and the state filter is sent only when it is not "open".
C25_PerPageClamped ==
  [][\A p \in ProcIds, a \in args :
       (Start(p, "fetchPRs", a) /\ pc'[p] = "wait")
         => LET sent == Number(query'[p].per_page)
            IN /\ sent.finite /\ sent.value \in 1..100
               /\ sent.value = StatedPerPage(a.options.perPage)
               /\ query'[p].state # "" <=> a.options.state \notin {"", "open"}
               /\ query'[p].state # "" => query'[p].state = a.options.state]_vars

\* what belongs to the request of caller p
RequestOf(p) ==
  <<pc[p], op[p], key[p], stack[p], status[p], err[p], wakeAt[p], result[p], query[p],
    issued[p], lastKind[p]>>

\* C23: with two requests in flight on one client, every caller receives a
\* result or error classified from a response (or timeout) of one of its own
\* attempts; a response to one request never becomes the result of another:
\* a step of one request leaves the other request as it is.
C23_OwnResponsesOnly ==
  [][\A p \in ProcIds : \A q \in ProcIds \ {p} :
       /\ RequestOf(p)' # RequestOf(p) => RequestOf(q)' = RequestOf(q)
       /\ \A h \in QuotaHeaders, b \in Bodies :
            Respond(p, 200, h, b)
              => result'[p] = ReturnedResult(op[p], b) /\ result'[q] = result[q]
       /\ (Resolves(p) /\ issued[p] >= 1 /\ lastKind'[p] # "OK")
            => \/ result'[p] = [tag |-> "error", val |-> lastKind'[p]]
               \/ result'[p].tag = "null" /\ op[p] = "fetchPR" /\ lastKind'[p] = "NotFound"
               \/ result'[p].tag = "false" /\ op[p] = "validateToken"
                    /\ lastKind'[p] = "Unauthorized"]_vars

\* two requests overlapped (one issued an attempt on a snapshot the other's
\* response had overwritten), and each caller has the body of its own response
C23_Witness ==
  \E p \in ProcIds : \E q \in ProcIds \ {p} :
    /\ pc[p] = "done" /\ result[p] = [tag |-> "value", val |-> "b1"]
    /\ pc[q] = "done" /\ result[q] = [tag |-> "value", val |-> "b2"]
    /\ early[q]

\* C24: with two requests in flight, a request can issue an attempt before
\* the reset time T of a snapshot (remaining = 0, reset = T) that the other
\* request's response wrote before that attempt; when an attempt is issued
\* before T, the wait decision of its request was taken earlier, on a
\* snapshot that did not tell it to wait until T.
C24_EarlyAttemptOnOlderSnapshot ==
  [][\A p \in ProcIds :
       (Issues(p) /\ SaysWait(rateLimit, now))
         => early'[p] /\ decReset[p] # rateLimit.reset]_vars

\* request B issued its first attempt before T, after the response of request
\* A had recorded remaining = 0, reset = T; the check of B had found nothing
\* to wait for
C24_Witness ==
  \E a \in ProcIds : \E b \in ProcIds \ {a} :
    /\ pc[b] = "fetching" /\ issued[b] = 1 /\ early[b] /\ decReset[b] = -1
    /\ rateLimit # NoRateLimit /\ rateLimit.remaining = 0 /\ now < rateLimit.reset * 1000
    /\ lastKind[a] \in {"OK", "ServerError"}

IsDecimal(text) == text # <<>> /\ \A i \in 1..Len(text) : IsDigit(text[i])

\* the link was written as a pull-request page of GitHub (web or API) with
\* an http(s) scheme and a strictly positive number
IsPullRequest(sh) ==
  /\ sh.scheme \in {<<"h", "t", "t", "p", "s">>, <<"h", "t", "t", "p">>}
  /\ \/ sh.host \in GitHubHosts /\ sh.kind = "pull"
     \/ sh.host = APIHost /\ sh.kind = "api"
  /\ IsDecimal(sh.number) /\ DecimalValue(sh.number) > 0

\* C28: parseGitHubPRUrl returns a record only for a pull-request URL with a
\* strictly positive number; a URL whose number segment is 0, negative or
\* not a number, an issue URL, a URL of another host or of a scheme other
\* than http(s) gives null, and isValidGitHubPRUrl gives false for it.
C28_RecordOnlyForPullRequest ==
  (subject = "url" /\ valid.called /\ info.called)
    => /\ ~info.value.null
            => /\ IsPullRequest(link.shape)
               /\ info.value = [null |-> FALSE, owner |-> link.shape.owner,
                                repo |-> link.shape.repo,
                                number |-> DecimalValue(link.shape.number),
                                exponent |-> 0]
       /\ ~IsPullRequest(link.shape) => info.value.null /\ ~valid.value

\* an https link to pull request 0 of github.com was given: null and false
C28_Witness ==
  /\ subject = "url" /\ valid.called /\ info.called
  /\ link.shape.scheme = <<"h", "t", "t", "p", "s">> /\ link.shape.host = <<"g", "i", "t", "h", "u", "b", ".", "c", "o", "m">>
  /\ link.shape.kind = "pull" /\ link.shape.number = <<"0">>
  /\ info.value.null /\ ~valid.value

\* the pull-request link a mention stands for, as the canonical text
CanonicalOf(sh) ==
  Canonical([owner |-> sh.owner, repo |-> sh.repo, number |-> DecimalValue(sh.number),
             exponent |-> 0]).url

\* the canonical texts of the pull-request links of a list, each one at the
\* place of its first mention
RECURSIVE FirstMentions(_, _)
FirstMentions(links, seen) ==
  IF links = <<>> THEN seen
  ELSE IF ~IsPullRequest(links[1]) \/ InSeq(CanonicalOf(links[1]), seen)
  THEN FirstMentions(Tail(links), seen)
  ELSE FirstMentions(Tail(links), Append(seen, CanonicalOf(links[1])))

\* C27: extractPRUrlsFromMessage returns a list without duplicates, in order
\* of first occurrence in the message: two links that normalize to the same
\* owner/repo/number (plain, Slack-wrapped, http or www variants) yield one
\* entry, and links that are not pull-request links yield none.
C27_ExtractedOncePerPullRequest ==
  (subject = "message" /\ extracted.called)
    => /\ \A i \in 1..Len(extracted.value) : \A j \in 1..Len(extracted.value) :
            extracted.value[i] = extracted.value[j] => i = j
       /\ extracted.value = FirstMentions(message.links, <<>>)

\* a message with pull request 1, pull request 2 and pull request 1 again as
\* Slack writes an http www link gave the two canonical links in that order
C27_Witness ==
  /\ subject = "message" /\ extracted.called
  /\ message.links = <<PullOne, PullTwo, PullOneWWW>>
  /\ extracted.value = <<CanonicalOf(PullOne), CanonicalOf(PullTwo)>>

\* the owner and the repo are of the character class [A-Za-z0-9_.-]
Validated(t) ==
  /\ \A i \in 1..Len(t.owner) : t.owner[i] \in IdentifierChars
  /\ \A i \in 1..Len(t.repo) : t.repo[i] \in IdentifierChars

\* C29: the tracked-PR key is injective: for owners and repos of the
\* validated character set, two different (channel_id, owner, repo, number)
\* tuples never produce the same key.
C29_KeyInjective ==
  (subject = "keys" /\ ids.called /\ Validated(tracked[1]) /\ Validated(tracked[2])
     /\ tracked[1] # tracked[2])
    => ids.value[1] # ids.value[2]

\* two tracked PRs of validated owners and repos, one in a channel whose id
\* ends with the separator and the owner of the other, got different keys
C29_Witness ==
  /\ subject = "keys" /\ ids.called
  /\ Validated(tracked[1]) /\ Validated(tracked[2])
  /\ tracked[1].channel_id = <<"C", "1", ":", ":", "o">> /\ tracked[2].channel_id = <<"C", "1">>
  /\ tracked[1].owner = <<"o", "-", "r">> /\ tracked[2].owner = <<"o">>
  /\ ids.value[1] # ids.value[2]

\* a request starts: it passes ensureToken and is suspended in respectRateLimit
Suspends(p) == pc[p] = "idle" /\ pc'[p] = "wait"

\* C31: the pre-emptive wait before a request's first attempt is zero when
\* the snapshot is absent or shows remaining > 0, and is
\* max(reset - now, 1000 ms) when it shows remaining = 0; with a stale
\* zero-quota snapshot whose reset time has passed a new request still waits
\* 1 second, and its first attempt is not issued before the wait is over.
C31_PreemptiveWait ==
  [][\A p \in ProcIds :
       /\ (Suspends(p) /\ (rateLimit = NoRateLimit \/ rateLimit.remaining > 0))
            => wakeAt'[p] = now
       /\ (Suspends(p) /\ rateLimit # NoRateLimit /\ rateLimit.remaining = 0)
            => wakeAt'[p] - now =
                 IF rateLimit.reset * 1000 - now >= BASE_BACKOFF_MS
                 THEN rateLimit.reset * 1000 - now ELSE BASE_BACKOFF_MS
       /\ (Suspends(p) /\ rateLimit # NoRateLimit /\ rateLimit.remaining = 0
              /\ rateLimit.reset * 1000 <= now)
            => wakeAt'[p] = now + BASE_BACKOFF_MS
       /\ (Issues(p) /\ issued[p] = 0) => now >= wakeAt[p]]_vars

\* a second request that started after the reset time of a zero-quota
\* snapshot has waited its second, and its first attempt is due
C31_Witness ==
  \E p \in ProcIds :
    /\ pc[p] = "wait" /\ issued[p] = 0
    /\ rateLimit # NoRateLimit /\ rateLimit.remaining = 0
    /\ decReset[p] = rateLimit.reset /\ decReset[p] * 1000 < decAt[p]
    /\ wakeAt[p] = decAt[p] + BASE_BACKOFF_MS
    /\ now >= wakeAt[p]

\* the snapshot a response with the complete quota headers h stands for
TupleOf(h) ==
  [limit |-> DecimalValue(h.limit.text), remaining |-> DecimalValue(h.remaining.text),
   reset |-> DecimalValue(h.reset.text),
   used |-> IF h.used.present THEN DecimalValue(h.used.text)
            ELSE DecimalValue(h.limit.text) - DecimalValue(h.remaining.text)]

\* the response with quota headers h to an attempt of p is processed
Processed(p, h) ==
  \/ \E r \in RemoteResponses : Respond(p, r.status, h, r.body)
  \/ BodyAbort(p, h)

\* C32: under any interleaving of concurrent requests on one client the
\* snapshot is the complete (limit, remaining, reset, used) tuple of a single
\* response, the one processed last: a response with quota headers replaces
\* all four fields at once, and nothing else changes the snapshot.
C32_SnapshotOfOneResponse ==
  /\ [](rateLimit = NoRateLimit
         \/ \E h \in QuotaHeaders : Carried(h) /\ rateLimit = TupleOf(h))
  /\ [][/\ \A p \in ProcIds, h \in QuotaHeaders :
            Processed(p, h) => rateLimit' = IF Carried(h) THEN TupleOf(h) ELSE rateLimit
        /\ rateLimit' # rateLimit
             => \E p \in ProcIds, h \in QuotaHeaders : Carried(h) /\ Processed(p, h)]_vars

\* one caller started again under the first quota and waits for its reset
\* time, while the response to the other caller, in flight since before,
\* brought the second quota: the snapshot is the second quota
C32_Witness ==
  \E p \in ProcIds : \E q \in ProcIds \ {p} :
    /\ pc[q] = "wait" /\ issued[q] = 0 /\ decReset[q] = TupleOf(FirstQuota).reset
    /\ pc[p] = "done" /\ issued[p] = 1 /\ lastKind[p] = "OK"
    /\ rateLimit = TupleOf(SecondQuota)

\* C33: for every input string, isValidGitHubPRUrl(url) is true if and only
\* if parseGitHubPRUrl(url) is not null.
C33_ValidIffParsed ==
  (subject = "url" /\ valid.called /\ info.called)
    => (valid.value <=> ~info.value.null)

\* a pull-request link longer than 2000 characters was given to both: false
\* and null
C33_Witness ==
  /\ subject = "url" /\ valid.called /\ info.called
  /\ link.shape = LongShape /\ Len(link.text) > MAX_URL_LENGTH
  /\ ~valid.value /\ info.value.null

\* the text is https://github.com/{owner}/{repo}/pull/{number}: an owner and
\* a repo of the character class, a decimal numeral, and nothing after it
HasCanonicalForm(url) ==
  \E m \in {PatternMatch(url, {Https \o <<":", "/", "/">> \o GitHub \o Slash}, Pull)} :
    /\ m.ok
    /\ url = Https \o <<":", "/", "/">> \o GitHub \o Slash \o m.owner \o Slash \o m.repo
               \o Slash \o Pull \o Slash \o m.numberStr

\* C34: every element returned by extractPRUrlsFromMessage has the canonical
\* form https://github.com/{owner}/{repo}/pull/{number} and is a fixed point:
\* parsing it gives the same owner, repo and number, and extracting from a
\* message that is just that element returns exactly that element.
C34_ElementsAreFixedPoints ==
  (subject = "element" /\ extracted.called /\ again.called)
    => \A i \in 1..Len(extracted.value) :
         /\ HasCanonicalForm(extracted.value[i])
         /\ ~again.value[i].info.null
         /\ Canonical(again.value[i].info).url = extracted.value[i]
         /\ again.value[i].urls = <<extracted.value[i]>>

====
